---- MODULE Spec2Model ----
(***************************************************************************)
(* Truck-Driver-Logbook: the HOS planning pipeline.                        *)
(*                                                                         *)
(*   core/routes/services.py          calculate_hos_stops (stop planner)   *)
(*   core/routes/route_planner.py     plan_trip_with_route (orchestrator)  *)
(*   core/routes/logbook_generator.py timeline, midnight split, gap fill   *)
(*   core/hos/engine.py               generate_duty_events, split into days*)
(*   core/hos/event_validators.py     compliance validator                 *)
(*   core/trips/tasks.py              generate_logs_for_trip (Celery task) *)
(*                                                                         *)
(* Units.  Instants and durations are whole seconds; an instant is the     *)
(* number of seconds since 00:00:00 of day 0 in the trip's own UTC offset, *)
(* so date(t) = t \div 86400.  Distances are in 1/3600 mile, so that       *)
(* driving s seconds at v mph covers exactly v*s units.  The inputs are    *)
(* restricted to speeds and distances for which every quotient the code    *)
(* computes is a whole number of seconds; on those inputs the arithmetic   *)
(* below is the code's arithmetic without float rounding error.            *)
(***************************************************************************)
EXTENDS Integers, Sequences, FiniteSets, TLC

\* ------------------------------------------------------------------------
\* Program constants
\* ------------------------------------------------------------------------
HOS_MAX_DRIVING_BEFORE_BREAK == 8
HOS_BREAK_DURATION == 30
HOS_MAX_DRIVING_DAILY == 11
HOS_MAX_ON_DUTY_WINDOW == 14
HOS_REST_DURATION == 600
HOS_FUEL_INTERVAL_MILES == 1000
HOS_FUEL_STOP_DURATION == 30
HOS_PICKUP_DURATION == 60
HOS_DROPOFF_DURATION == 60
RouteMaxBlockHours == 2

MAX_DRIVING_HOURS == 11
MAX_ON_DUTY_WINDOW == 14
MAX_CYCLE_HOURS == 70
MINIMUM_REST_HOURS == 10
BREAK_REQUIRED_AFTER_HOURS == 8
BREAK_DURATION_MINUTES == 30
PICKUP_DURATION_HOURS == 1
DROPOFF_DURATION_HOURS == 1
FUEL_INTERVAL_MILES == 1000
FUEL_STOP_DURATION_MINUTES == 30
MAX_CONTINUOUS_DRIVING_HOURS == 2
FinalRestHours == 10
MAX_RETRIES == 3

\* 0.01 h, the planners' "less than a minute" threshold, in seconds
EpsSeconds == 36
\* 0.02 h, the validator's rounding tolerance, in seconds
TolSeconds == 72
\* 0.5 h: the validator's break grace and the qualifying-break length
HalfHourSeconds == 1800
\* ensure_contiguous tolerance
GapToleranceSeconds == 60
\* ensure_exactly_24_hours tolerance, in hundredths of an hour
DayTotalTolerance == 2

HOUR == 3600
MINUTE == 60
DAY == 86400
\* distance units per mile: a mile is what 1 mph covers in an hour of seconds
MILE == HOUR
\* float('inf') in the min() of the drive block
Infinity == 1000000000

STATUS_OFF_DUTY == "OFF_DUTY"
STATUS_SLEEPER == "SLEEPER"
STATUS_DRIVING == "DRIVING"
STATUS_ON_DUTY == "ON_DUTY"
VALID_STATUSES == {STATUS_OFF_DUTY, STATUS_SLEEPER, STATUS_DRIVING, STATUS_ON_DUTY}

\* ------------------------------------------------------------------------
\* Bounds of the model
\* ------------------------------------------------------------------------
\* planning runs (first plan plus replans) of the one trip
MaxRuns == 2
\* injected database failures over a behaviour
MaxDbFailures == 1
\* an injected failure of persist_logbook_to_database hits the LogDay insert
\* of a day or one of its first MaxFailSegment segment inserts
MaxFailSegment == 1

\* ------------------------------------------------------------------------
\* Inputs
\* ------------------------------------------------------------------------
Speeds == {50}
\* route distance in miles of the (last) leg origin/pickup -> destination
Distances == {1, 300}
\* distance in miles of the leg origin -> pickup; 0 is the direct trip
\* (pickup_location equals origin)
Leg1Distances == {0, 500}
\* planned_start_time: 06:00:00 and 22:00:18 of day 0
FirstStart == 21600
StartTimes == {FirstStart, 79218}
\* current_cycle_hours
CycleHours == {0, 65}

\* the wider inputs of the generation-only specification SpecPlan
PlanSpeeds == {50, 60}
PlanDistances == {1, 200, 300, 600, 1100, 2100}
PlanLeg1Distances == {0, 300, 500}

\* the single events of the splitter specification SpecSplit: starts at
\* 00:00, 06:00 and 22:00 of day 0; durations from 1 h to 50 h
SplitStarts == {0, 21600, 79200}
SplitDurations == {3600, 7200, 14400, 36000, 90000, 100800, 180000}

\* ------------------------------------------------------------------------
\* Arithmetic helpers
\* ------------------------------------------------------------------------
MinOf(S) == CHOOSE x \in S : \A y \in S : x <= y

\* Python round(n / d, k) on the exact quotient: nearest, ties to even
RoundDiv(n, d) ==
    LET q == n \div d
        r == n % d
    IN  IF 2 * r < d THEN q
        ELSE IF 2 * r > d THEN q + 1
        ELSE IF q % 2 = 0 THEN q ELSE q + 1

\* round(x, 2) of a float x that is a sum of float quotients: off a tie the
\* result is the nearest hundredth; on an exact decimal tie the result
\* depends on the binary representation of x, so either neighbour can be
\* produced (up says which)
RoundTie(n, d, up) ==
    LET q == n \div d
        r == n % d
    IN  IF 2 * r > d \/ (2 * r = d /\ up) THEN q + 1 ELSE q

DateOf(t) == t \div DAY

Last(s) == s[Len(s)]

RECURSIVE SeqSum(_)
SeqSum(s) == IF s = <<>> THEN 0 ELSE Head(s) + SeqSum(Tail(s))

\* ------------------------------------------------------------------------
\* State
\* ------------------------------------------------------------------------
VARIABLES
    input,        \* the TripRequest: [speed, dist, frac, leg1, start, cycle]
    response,     \* outcome of the last POST /trips/{id}/cancel/: none/success/error
    geoCache,     \* django cache, reverse_geocode entries: key -> city, or NoEntry
    provider,     \* Nominatim's answer to a reverse query: point -> city or failure
    planned,      \* history: the routes (stops, segments) completed so far
    pc,           \* position of the running task / orchestrator call
    pipeline,     \* "none" | "route" | "engine": which entry point runs
    leg,          \* route planner: the leg being planned (1 or 2)
    ps,           \* calculate_hos_stops locals (PlannerState)
    stops,        \* calculate_hos_stops: stops of the current leg
    segments,     \* calculate_hos_stops: driving segments of the current leg
    leg1res,      \* plan_trip_with_route: leg1 RouteResult (stops, segments, hours)
    route,        \* plan_trip_with_route: merged route_result
    es,           \* generate_duty_events: HOSState and loop locals
    timeline,     \* the event timeline (route: LogbookSegment list; engine: events)
    logDays,      \* the LogDays derived from the timeline
    verdict,      \* validate_before_persistence of this run: none/accepted/rejected
    status,       \* Trip.status
    errorKind,    \* classification behind Trip.error_message
    store,        \* committed LogDay rows of the trip (with their segments)
    txn,          \* rows written inside the open transaction.atomic block
    persistPos,   \* [day, seg]: next row persist_logbook_to_database writes
    retries,      \* Celery self.request.retries of the running task
    runs,         \* planning runs started so far
    dbFailures,   \* database failures injected so far
    storeAtStart, \* history: store when the current run started
    produced      \* history: complete LogDay lists produced by runs so far

vars == <<input, response, geoCache, provider, planned, pc, pipeline, leg, ps, stops, segments, leg1res, route,
          es, timeline, logDays, verdict, status, errorKind, store, txn,
          persistPos, retries, runs, dbFailures, storeAtStart, produced>>

plannerVars == <<leg, ps, stops, segments, leg1res, route>>
geoVars == <<geoCache, provider>>
dbVars == <<store, txn, persistPos, dbFailures>>

\* ------------------------------------------------------------------------
\* Stop planner: calculate_hos_stops (core/routes/services.py)
\* ------------------------------------------------------------------------
\* A RouteStop.  miles10 is distance_from_start_miles = round(miles, 1) in
\* tenths of a mile, hours100 is driving_hours_from_start = round(hours, 2)
\* in hundredths of an hour.
RouteStop(type, arrival, minutes, p, city) ==
    [type |-> type, arrival |-> arrival, departure |-> arrival + minutes * MINUTE,
     minutes |-> minutes,
     miles10 |-> RoundDiv(p.dist, MILE \div 10),
     hours100 |-> RoundDiv(p.total, EpsSeconds),
     city |-> city]

\* Locals of calculate_hos_stops before Phase 2, with the Phase 1 pickup.
PlannerStart(start, distUnits, inclPickup, inclDropoff, originCity, destCity) ==
    LET t0 == IF inclPickup THEN start + HOS_PICKUP_DURATION * MINUTE ELSE start
        p0 == [dsb |-> 0, dtoday |-> 0, wstart |-> start, msf |-> 0, total |-> 0,
               dist |-> 0, time |-> t0, segT |-> t0, segM |-> 0,
               start |-> start, D |-> distUnits,
               dropoff |-> inclDropoff, destCity |-> destCity]
    IN  [ps |-> p0,
         stops |-> IF inclPickup
                   THEN << [type |-> "PICKUP", arrival |-> start,
                            departure |-> start + HOS_PICKUP_DURATION * MINUTE,
                            minutes |-> HOS_PICKUP_DURATION,
                            miles10 |-> 0, hours100 |-> 0, city |-> originCity] >>
                   ELSE << >>]

HoursUntilBreak(p) == HOS_MAX_DRIVING_BEFORE_BREAK * HOUR - p.dsb

HoursUntilDailyLimit(p) == HOS_MAX_DRIVING_DAILY * HOUR - p.dtoday

HoursUntilWindowLimit(p) == HOS_MAX_ON_DUTY_WINDOW * HOUR - (p.time - p.wstart)

HoursUntilFuel(p, v) == (HOS_FUEL_INTERVAL_MILES * MILE - p.msf) \div v

\* a headroom of at most 0.01 h is left out of the min()
Headroom(h) == IF h > EpsSeconds THEN h ELSE Infinity

\* drive_hours of one iteration, in seconds; 0 when the block is <= 0.01 h
DriveSeconds(p, v) ==
    LET dh == MinOf({ (p.D - p.dist) \div v,
                      Headroom(HoursUntilBreak(p)),
                      Headroom(HoursUntilDailyLimit(p)),
                      Headroom(HoursUntilWindowLimit(p)),
                      Headroom(HoursUntilFuel(p, v)),
                      RouteMaxBlockHours * HOUR })
    IN  IF dh <= EpsSeconds THEN 0 ELSE dh

\* drive_miles = drive_hours * average_speed_mph.  Times are whole seconds:
\* when the block is the rest of the trip and the speed does not divide it,
\* the miles of the last fraction of a second are driven with it
DriveMiles(p, v, dh) ==
    IF dh = (p.D - p.dist) \div v THEN p.D - p.dist ELSE dh * v

\* "Execute the drive": the counters after the block
AfterDrive(p, v) ==
    LET dh == DriveSeconds(p, v)
        dm == DriveMiles(p, v, dh)
    IN  [p EXCEPT !.dsb = @ + dh, !.dtoday = @ + dh, !.total = @ + dh,
                  !.msf = @ + dm, !.dist = @ + dm, !.time = @ + dh]

\* seeded fault: stop_needed with the break asked for an hour late
StopNeeded_LateBreak(p) ==
    IF p.dtoday >= HOS_MAX_DRIVING_DAILY * HOUR - EpsSeconds THEN "REST"
    ELSE IF p.time - p.wstart >= HOS_MAX_ON_DUTY_WINDOW * HOUR - EpsSeconds THEN "REST"
    ELSE IF p.dsb >= (HOS_MAX_DRIVING_BEFORE_BREAK + 1) * HOUR - EpsSeconds THEN "BREAK"
    ELSE IF p.msf >= (HOS_FUEL_INTERVAL_MILES - 1) * MILE THEN "FUEL"
    ELSE "NONE"

\* seeded fault: stop_needed without its fuel branch
StopNeeded_NoFuel(p) ==
    IF p.dtoday >= HOS_MAX_DRIVING_DAILY * HOUR - EpsSeconds THEN "REST"
    ELSE IF p.time - p.wstart >= HOS_MAX_ON_DUTY_WINDOW * HOUR - EpsSeconds THEN "REST"
    ELSE IF p.dsb >= HOS_MAX_DRIVING_BEFORE_BREAK * HOUR - EpsSeconds THEN "BREAK"
    ELSE "NONE"

\* stop_needed, evaluated on the counters after the drive
StopNeeded(p) ==
    IF p.dtoday >= HOS_MAX_DRIVING_DAILY * HOUR - EpsSeconds THEN "REST"
    ELSE IF p.time - p.wstart >= HOS_MAX_ON_DUTY_WINDOW * HOUR - EpsSeconds THEN "REST"
    ELSE IF p.dsb >= HOS_MAX_DRIVING_BEFORE_BREAK * HOUR - EpsSeconds THEN "BREAK"
    ELSE IF p.msf >= (HOS_FUEL_INTERVAL_MILES - 1) * MILE THEN "FUEL"
    ELSE "NONE"

StopMinutes(kind) ==
    IF kind = "REST" THEN HOS_REST_DURATION
    ELSE IF kind = "BREAK" THEN HOS_BREAK_DURATION
    ELSE HOS_FUEL_STOP_DURATION

\* seeded fault: a BREAK also restarts the fuel interval
AfterStop_BreakResetsFuel(p, kind) ==
    LET dep == p.time + StopMinutes(kind) * MINUTE
        q == IF kind = "REST"
             THEN [p EXCEPT !.time = dep, !.dsb = 0, !.dtoday = 0, !.wstart = dep]
             ELSE IF kind = "BREAK"
             THEN [p EXCEPT !.time = dep, !.dsb = 0, !.msf = 0]
             ELSE [p EXCEPT !.time = dep, !.msf = 0]
    IN  [q EXCEPT !.segT = dep, !.segM = p.dist]

\* seeded fault: the next segment keeps the start mile of the one before
AfterStop_KeepsSegmentStart(p, kind) ==
    LET dep == p.time + StopMinutes(kind) * MINUTE
        q == IF kind = "REST"
             THEN [p EXCEPT !.time = dep, !.dsb = 0, !.dtoday = 0, !.wstart = dep]
             ELSE IF kind = "BREAK"
             THEN [p EXCEPT !.time = dep, !.dsb = 0]
             ELSE [p EXCEPT !.time = dep, !.msf = 0]
    IN  [q EXCEPT !.segT = dep]

\* the counters after a stop of the given kind has been taken
AfterStop(p, kind) ==
    LET dep == p.time + StopMinutes(kind) * MINUTE
        q == IF kind = "REST"
             THEN [p EXCEPT !.time = dep, !.dsb = 0, !.dtoday = 0, !.wstart = dep]
             ELSE IF kind = "BREAK"
             THEN [p EXCEPT !.time = dep, !.dsb = 0]
             ELSE [p EXCEPT !.time = dep, !.msf = 0]
    IN  [q EXCEPT !.segT = dep, !.segM = p.dist]

SegmentHoursSum(segs) == SeqSum([i \in 1..Len(segs) |-> segs[i].hours])

DrivingSegment(p, endMiles, segs) ==
    [start_miles |-> p.segM, end_miles |-> endMiles,
     start_time |-> p.segT, end_time |-> p.time,
     hours |-> p.total - SegmentHoursSum(segs)]

\* One iteration of the Phase 2 loop: [ps, stops, segments] after it.
PlannerIteration(p, st, segs, v) ==
    LET q == AfterDrive(p, v)
        kind == StopNeeded(q)
    IN  IF kind # "NONE" /\ q.dist < q.D
        THEN [ps |-> AfterStop(q, kind),
              stops |-> Append(st, RouteStop(kind, q.time, StopMinutes(kind), q, "Town")),
              segments |-> Append(segs, DrivingSegment(q, q.dist, segs))]
        ELSE [ps |-> q, stops |-> st, segments |-> segs]

\* After the loop: final driving segment, Phase 3 dropoff, total_trip_hours.
PlannerFinish(p, st, segs) ==
    LET segs2 == IF p.segM < p.D
                 THEN Append(segs, DrivingSegment(p, p.D, segs))
                 ELSE segs
        st2 == IF p.dropoff
               THEN Append(st, [RouteStop("DROPOFF", p.time, HOS_DROPOFF_DURATION,
                                          [p EXCEPT !.dist = p.D], p.destCity)
                                EXCEPT !.miles10 = RoundDiv(p.D, MILE \div 10)])
               ELSE st
        tEnd == IF p.dropoff THEN p.time + HOS_DROPOFF_DURATION * MINUTE ELSE p.time
    IN  [stops |-> st2, segments |-> segs2, total_trip_seconds |-> tEnd - p.start,
         total_driving |-> p.total]

\* plan_route's RouteResult: rounded distance, segment hours, trip hours
RouteResult(distUnits, fin) ==
    [miles10 |-> RoundDiv(distUnits, MILE \div 10),
     stops |-> fin.stops,
     segments |-> [i \in 1..Len(fin.segments) |->
                     [fin.segments[i] EXCEPT !.hours = RoundDiv(@, EpsSeconds)]],
     trip_hours100 |-> RoundDiv(fin.total_trip_seconds, EpsSeconds)]

EmptyRoute == [miles10 |-> 0, stops |-> << >>, segments |-> << >>, trip_hours100 |-> 0]

\* ------------------------------------------------------------------------
\* Orchestrator: plan_trip_with_route (core/routes/route_planner.py)
\* ------------------------------------------------------------------------
\* "Calculate end time of first leg": the last scheduled_departure of leg 1
Leg1EndTime(leg1stops, start) ==
    IF leg1stops = << >> THEN start ELSE Last(leg1stops).departure

MergeLegs(l1, l2) ==
    [miles10 |-> l1.miles10 + l2.miles10,
     stops |-> l1.stops \o l2.stops,
     segments |-> l1.segments \o l2.segments,
     trip_hours100 |-> l1.trip_hours100 + l2.trip_hours100]

EmptyPlanner ==
    [dsb |-> 0, dtoday |-> 0, wstart |-> 0, msf |-> 0, total |-> 0, dist |-> 0,
     time |-> 0, segT |-> 0, segM |-> 0, start |-> 0, D |-> 0,
     dropoff |-> FALSE, destCity |-> ""]

\* ------------------------------------------------------------------------
\* Events.  A LogbookSegment / DutyEvent: start, end, status, city, remark;
\* the remark is kept as its base text and the suffix the splitters add.
\* ------------------------------------------------------------------------
Event(start, end, st, city, remark) ==
    [start |-> start, end |-> end, status |-> st, city |-> city,
     remark |-> remark, suffix |-> ""]

Duration(e) == e.end - e.start

\* sorted(events, key=lambda e: e.start): stable
RECURSIVE InsertByStart(_, _)
InsertByStart(e, s) ==
    IF s = << >> THEN << e >>
    ELSE IF Last(s).start <= e.start THEN Append(s, e)
    ELSE Append(InsertByStart(e, SubSeq(s, 1, Len(s) - 1)), Last(s))

RECURSIVE SortByStart(_)
SortByStart(s) ==
    IF s = << >> THEN << >>
    ELSE InsertByStart(Last(s), SortByStart(SubSeq(s, 1, Len(s) - 1)))

\* sorted(stops, key=lambda s: s["scheduled_arrival"]): stable
RECURSIVE InsertByArrival(_, _)
InsertByArrival(e, s) ==
    IF s = << >> THEN << e >>
    ELSE IF Last(s).arrival <= e.arrival THEN Append(s, e)
    ELSE Append(InsertByArrival(e, SubSeq(s, 1, Len(s) - 1)), Last(s))

RECURSIVE SortByArrival(_)
SortByArrival(s) ==
    IF s = << >> THEN << >>
    ELSE InsertByArrival(Last(s), SortByArrival(SubSeq(s, 1, Len(s) - 1)))

\* ------------------------------------------------------------------------
\* Logbook transformer (core/routes/logbook_generator.py)
\* ------------------------------------------------------------------------
_map_stop_to_duty_status(stop_type) ==
    IF stop_type = "PICKUP" THEN STATUS_ON_DUTY
    ELSE IF stop_type = "DROPOFF" THEN STATUS_ON_DUTY
    ELSE IF stop_type = "BREAK" THEN STATUS_OFF_DUTY
    ELSE IF stop_type = "REST" THEN STATUS_SLEEPER
    ELSE IF stop_type = "FUEL" THEN STATUS_ON_DUTY
    ELSE STATUS_OFF_DUTY

\* seeded fault: the loop over sorted_stops without the driving segments
RECURSIVE TimelineLoop_NoDriving(_, _, _, _)
TimelineLoop_NoDriving(sorted, last_time, current_city, acc) ==
    IF sorted = << >> THEN acc
    ELSE LET stop == Head(sorted)
             acc2 == Append(acc, Event(stop.arrival, stop.departure,
                                       _map_stop_to_duty_status(stop.type),
                                       stop.city, stop.type))
         IN  TimelineLoop_NoDriving(Tail(sorted), stop.departure, current_city, acc2)

\* the loop over sorted_stops: driving fills the time before each stop
RECURSIVE TimelineLoop(_, _, _, _)
TimelineLoop(sorted, last_time, current_city, acc) ==
    IF sorted = << >> THEN acc
    ELSE LET stop == Head(sorted)
             acc1 == IF stop.arrival > last_time
                     THEN Append(acc, Event(last_time, stop.arrival, STATUS_DRIVING,
                                            current_city, "Driving"))
                     ELSE acc
             acc2 == Append(acc1, Event(stop.arrival, stop.departure,
                                        _map_stop_to_duty_status(stop.type),
                                        stop.city, stop.type))
             city2 == IF stop.city # "" /\ stop.city # "Unknown"
                      THEN stop.city ELSE current_city
         IN  TimelineLoop(Tail(sorted), stop.departure, city2, acc2)

\* generate_logbook_from_route, lines 101-155: the chronological timeline
BuildTimeline(route_stops, start_time, origin_city) ==
    SortByStart(TimelineLoop(SortByArrival(route_stops), start_time,
                             IF origin_city = "" THEN "Unknown" ELSE origin_city,
                             << >>))

\* the while loop of _split_segments_at_midnight for one segment
RECURSIVE SplitParts(_, _, _)
SplitParts(segment, current_start, current_date) ==
    IF current_date < DateOf(segment.end)
    THEN << [segment EXCEPT !.start = current_start,
                            !.end = (current_date + 1) * DAY,
                            !.suffix = " (cont'd)"] >>
         \o SplitParts(segment, (current_date + 1) * DAY, current_date + 1)
    ELSE IF current_start < segment.end
    THEN << [segment EXCEPT !.start = current_start,
                            !.suffix = " (cont'd from prev day)"] >>
    ELSE << >>

SplitSegment(segment) ==
    IF DateOf(segment.start) = DateOf(segment.end) THEN << segment >>
    ELSE SplitParts(segment, segment.start, DateOf(segment.start))

RECURSIVE _split_segments_at_midnight(_)
_split_segments_at_midnight(segs) ==
    IF segs = << >> THEN << >>
    ELSE SplitSegment(Head(segs)) \o _split_segments_at_midnight(Tail(segs))

RECURSIVE SortedDates(_)
SortedDates(S) ==
    IF S = {} THEN << >>
    ELSE LET m == MinOf(S) IN << m >> \o SortedDates(S \ {m})

LogDayRecord(date, segs) ==
    [date |-> date, segments |-> segs,
     driving |-> 0, on_duty |-> 0, off_duty |-> 0, sleeper |-> 0]

_group_segments_by_date(segs) ==
    LET dates == SortedDates({DateOf(segs[i].start) : i \in 1..Len(segs)})
    IN  [k \in 1..Len(dates) |->
           LogDayRecord(dates[k],
             SortByStart(SelectSeq(segs, LAMBDA e : DateOf(e.start) = dates[k])))]

\* the loop of _fill_day_gaps over the sorted segments
RECURSIVE FillBetween(_, _, _)
FillBetween(sorted, i, remark) ==
    IF i > Len(sorted) THEN << >>
    ELSE LET seg == sorted[i]
             gap == IF i < Len(sorted) /\ seg.end < sorted[i + 1].start
                    THEN << Event(seg.end, sorted[i + 1].start, STATUS_OFF_DUTY,
                                  seg.city, remark) >>
                    ELSE << >>
         IN  << seg >> \o gap \o FillBetween(sorted, i + 1, remark)

\* seeded fault: the gap filling without the fill up to the end of the day
FillGaps_NoTrailing(date, segs, remark) ==
    IF segs = << >> THEN segs
    ELSE LET day_start == date * DAY
             sorted == SortByStart(segs)
             leading == IF sorted[1].start > day_start
                        THEN << Event(day_start, sorted[1].start, STATUS_OFF_DUTY,
                                      sorted[1].city, remark) >>
                        ELSE << >>
         IN  leading \o FillBetween(sorted, 1, remark)

\* the gap filling shared by _fill_day_gaps and _fill_gaps_with_off_duty
FillGaps(date, segs, remark) ==
    IF segs = << >> THEN segs
    ELSE LET day_start == date * DAY
             day_end == (date + 1) * DAY
             sorted == SortByStart(segs)
             leading == IF sorted[1].start > day_start
                        THEN << Event(day_start, sorted[1].start, STATUS_OFF_DUTY,
                                      sorted[1].city, remark) >>
                        ELSE << >>
             filled == leading \o FillBetween(sorted, 1, remark)
         IN  IF Last(filled).end < day_end
             THEN Append(filled, Event(Last(filled).end, day_end, STATUS_OFF_DUTY,
                                       Last(filled).city, remark))
             ELSE filled

_fill_day_gaps(log_day) ==
    [log_day EXCEPT !.segments = FillGaps(log_day.date, log_day.segments, "Off duty")]

\* seconds of the day's segments in one status
StatusSeconds(segs, st) ==
    SeqSum([i \in 1..Len(segs) |-> IF segs[i].status = st THEN Duration(segs[i]) ELSE 0])

\* the outcomes of the float ties, one per status
TieChoices == [VALID_STATUSES -> BOOLEAN]

\* seeded fault: the totals cut to two decimals instead of rounded
DayTotals_Truncated(log_day, ties) ==
    LET total(st) == StatusSeconds(log_day.segments, st) \div EpsSeconds
    IN  [log_day EXCEPT !.driving = total(STATUS_DRIVING),
                        !.on_duty = total(STATUS_ON_DUTY),
                        !.off_duty = total(STATUS_OFF_DUTY),
                        !.sleeper = total(STATUS_SLEEPER)]

\* round(total, 2): the totals are kept in hundredths of an hour
DayTotals(log_day, ties) ==
    LET total(st) == RoundTie(StatusSeconds(log_day.segments, st), EpsSeconds, ties[st])
    IN  [log_day EXCEPT !.driving = total(STATUS_DRIVING),
                        !.on_duty = total(STATUS_ON_DUTY),
                        !.off_duty = total(STATUS_OFF_DUTY),
                        !.sleeper = total(STATUS_SLEEPER)]

_calculate_day_totals(log_day, ties) == DayTotals(log_day, ties)

\* generate_logbook_from_route, lines 157-173, from the timeline on
LogDaysFromTimeline(tl, ties) ==
    IF tl = << >> THEN << >>
    ELSE LET days == _group_segments_by_date(_split_segments_at_midnight(tl))
         IN  [k \in 1..Len(days) |-> _calculate_day_totals(_fill_day_gaps(days[k]), ties)]

\* ------------------------------------------------------------------------
\* HOS engine: generate_duty_events (core/hos/engine.py)
\* ------------------------------------------------------------------------
NoTime == -1

\* HOSState.hours_since_window_start, in seconds
hours_since_window_start(e) ==
    IF e.wstart = NoTime THEN 0 ELSE e.time - e.wstart

\* HOSState and the loop locals after Phase 1 (pickup)
EngineStart(start, miles, cycleHours) ==
    LET pickup_end == start + PICKUP_DURATION_HOURS * HOUR
    IN  [es |-> [time |-> pickup_end, dtoday |-> 0, wstart |-> start,
                 milesRem |-> miles * MILE,
                 cycleUsed |-> cycleHours * HOUR + PICKUP_DURATION_HOURS * HOUR,
                 msf |-> 0, hsb |-> 0, exited |-> FALSE],
         events |-> << Event(start, pickup_end, STATUS_ON_DUTY, "Pickup", "Pickup") >>]

\* seeded fault: the drive block is not capped by the time left until the
\* 30-minute break is due
EngineDriveSeconds_NoBreakCap(e, v) ==
    MinOf({ MAX_DRIVING_HOURS * HOUR - e.dtoday,
            MAX_ON_DUTY_WINDOW * HOUR - hours_since_window_start(e),
            e.milesRem \div v })

\* drive_hours of the "DRIVE A BLOCK" part, in seconds
EngineDriveSeconds(e, v) ==
    MinOf({ MAX_CONTINUOUS_DRIVING_HOURS * HOUR,
            MAX_DRIVING_HOURS * HOUR - e.dtoday,
            MAX_ON_DUTY_WINDOW * HOUR - hours_since_window_start(e),
            BREAK_REQUIRED_AFTER_HOURS * HOUR - e.hsb,
            e.milesRem \div v })

\* One pass through the body of "while state.miles_remaining > 0"
EngineIteration(e, events, v) ==
    IF e.dtoday >= MAX_DRIVING_HOURS * HOUR
    THEN LET rest_end == e.time + MINIMUM_REST_HOURS * HOUR
         IN  [es |-> [e EXCEPT !.time = rest_end, !.dtoday = 0,
                               !.wstart = rest_end, !.hsb = 0],
              events |-> Append(events, Event(e.time, rest_end, STATUS_SLEEPER,
                                              "Pickup", "10-hour rest (driving limit)"))]
    ELSE IF hours_since_window_start(e) >= MAX_ON_DUTY_WINDOW * HOUR
    THEN LET rest_end == e.time + MINIMUM_REST_HOURS * HOUR
         IN  [es |-> [e EXCEPT !.time = rest_end, !.dtoday = 0,
                               !.wstart = rest_end, !.hsb = 0],
              events |-> Append(events, Event(e.time, rest_end, STATUS_OFF_DUTY,
                                              "Pickup", "10-hour rest (on-duty window)"))]
    ELSE IF e.msf >= FUEL_INTERVAL_MILES * MILE
    THEN LET fuel_end == e.time + FUEL_STOP_DURATION_MINUTES * MINUTE
         IN  [es |-> [e EXCEPT !.time = fuel_end,
                               !.cycleUsed = @ + FUEL_STOP_DURATION_MINUTES * MINUTE,
                               !.msf = 0],
              events |-> Append(events, Event(e.time, fuel_end, STATUS_ON_DUTY,
                                              "Pickup", "Fuel stop"))]
    ELSE IF e.hsb >= BREAK_REQUIRED_AFTER_HOURS * HOUR
    THEN LET break_end == e.time + BREAK_DURATION_MINUTES * MINUTE
         IN  [es |-> [e EXCEPT !.time = break_end, !.hsb = 0],
              events |-> Append(events, Event(e.time, break_end, STATUS_OFF_DUTY,
                                              "Pickup", "30-minute break"))]
    ELSE LET dh == EngineDriveSeconds(e, v)
         IN  IF dh <= EpsSeconds
             THEN [es |-> [e EXCEPT !.exited = TRUE], events |-> events]
             ELSE [es |-> [e EXCEPT !.time = @ + dh, !.dtoday = @ + dh,
                                    !.cycleUsed = @ + dh,
                                    !.milesRem = @ - dh * v,
                                    !.msf = @ + dh * v, !.hsb = @ + dh],
                   events |-> Append(events, Event(e.time, e.time + dh, STATUS_DRIVING,
                                                   "Pickup", "Driving"))]

\* Phase 3 (dropoff) and Phase 4 (final off duty)
EngineFinish(e, events) ==
    LET dropoff_end == e.time + DROPOFF_DURATION_HOURS * HOUR
        final_rest_end == dropoff_end + FinalRestHours * HOUR
    IN  events \o << Event(e.time, dropoff_end, STATUS_ON_DUTY, "Dest", "Dropoff"),
                     Event(dropoff_end, final_rest_end, STATUS_OFF_DUTY, "Dest",
                           "Trip complete - off duty") >>

EmptyEngine ==
    [time |-> 0, dtoday |-> 0, wstart |-> NoTime, milesRem |-> 0, cycleUsed |-> 0,
     msf |-> 0, hsb |-> 0, exited |-> FALSE]

\* ------------------------------------------------------------------------
\* split_events_into_log_days (core/hos/engine.py)
\* ------------------------------------------------------------------------
HasDay(days, date) == \E k \in 1..Len(days) : days[k].date = date

\* seeded fault: the engine files an event under its start date unsplit
SplitEventIntoDays_Unsplit(event) ==
    << [date |-> DateOf(event.start), seg |-> event] >>

\* the body of "for event in events": the (date, segment) pairs that the
\* calls of _add_event_to_day file for one event, in order
SplitEventIntoDays(event) ==
    LET start_date == DateOf(event.start)
        end_date == DateOf(event.end)
        midnight == (start_date + 1) * DAY
    IN  IF start_date = end_date THEN << [date |-> start_date, seg |-> event] >>
        ELSE IF event.end > midnight
        THEN << [date |-> start_date,
                 seg |-> [event EXCEPT !.end = midnight, !.suffix = " (cont'd)"]],
                [date |-> end_date,
                 seg |-> [event EXCEPT !.start = midnight,
                                       !.suffix = " (cont'd from prev day)"]] >>
        ELSE << [date |-> start_date, seg |-> event] >>

\* the pairs filed over the whole loop, in order
SplitEventsLoop(events) ==
    LET slot(j) == LET filed == SplitEventIntoDays(events[(j + 1) \div 2])
                   IN  IF j % 2 = 1 THEN filed[1]
                       ELSE IF Len(filed) = 2 THEN filed[2]
                       ELSE [date |-> NoTime, seg |-> events[1]]
    IN  SelectSeq([j \in 1..(2 * Len(events)) |-> slot(j)],
                  LAMBDA f : f.date # NoTime)

\* log_days is a dict in insertion order: a date gets its LogDayData when the
\* first segment is filed under it, and each segment is appended to the
\* LogDayData of its date
_add_event_to_day(filed) ==
    LET numbered == [i \in 1..Len(filed) |-> [i |-> i, date |-> filed[i].date]]
        first == SelectSeq(numbered,
                           LAMBDA x : \A j \in 1..(x.i - 1) : filed[j].date # x.date)
        of(date) == SelectSeq(filed, LAMBDA f : f.date = date)
    IN  [k \in 1..Len(first) |->
           LogDayRecord(first[k].date,
                        [m \in 1..Len(of(first[k].date)) |-> of(first[k].date)[m].seg])]

_fill_gaps_with_off_duty(day_data) ==
    [day_data EXCEPT
       !.segments = FillGaps(day_data.date, day_data.segments, "Off duty (auto-filled)")]

_calculate_daily_totals(day_data, ties) == DayTotals(day_data, ties)

split_events_into_log_days(events, ties) ==
    LET days == _add_event_to_day(SplitEventsLoop(events))
    IN  [k \in 1..Len(days) |->
           _calculate_daily_totals(_fill_gaps_with_off_duty(days[k]), ties)]

\* ------------------------------------------------------------------------
\* Compliance validator (core/hos/event_validators.py).  Each check returns
\* "ok" or the rule / validation_type of the exception it raises.
\* ------------------------------------------------------------------------
IsRestStatus(e) == e.status \in {STATUS_OFF_DUTY, STATUS_SLEEPER}

\* seeded fault: the adjacent pairs of the list as given, without the sort
ensure_no_overlaps_Unsorted(events) ==
    IF Len(events) >= 2 /\ \E i \in 1..(Len(events) - 1) : events[i].end > events[i + 1].start
    THEN "OVERLAP" ELSE "ok"

ensure_no_overlaps(events) ==
    LET sorted == SortByStart(events)
    IN  IF Len(events) >= 2 /\ \E i \in 1..(Len(sorted) - 1) : sorted[i].end > sorted[i + 1].start
        THEN "OVERLAP" ELSE "ok"

ensure_contiguous(events) ==
    LET sorted == SortByStart(events)
    IN  IF Len(events) >= 2 /\ \E i \in 1..(Len(sorted) - 1) :
                                  sorted[i + 1].start - sorted[i].end > GapToleranceSeconds
        THEN "GAP" ELSE "ok"

ensure_day_segments_contiguous(day_data) ==
    IF day_data.segments = << >> THEN "EMPTY_DAY"
    ELSE ensure_contiguous(day_data.segments)

ensure_exactly_24_hours(day_data) ==
    LET total == day_data.driving + day_data.on_duty + day_data.off_duty + day_data.sleeper
        diff == IF total >= 2400 THEN total - 2400 ELSE 2400 - total
    IN  IF diff > DayTotalTolerance THEN "24_HOUR_TOTAL" ELSE "ok"

ensure_valid_statuses(events) ==
    IF \E i \in 1..Len(events) : events[i].status \notin VALID_STATUSES
    THEN "INVALID_STATUS" ELSE "ok"

RECURSIVE DrivingLimitLoop(_, _, _)
DrivingLimitLoop(sorted, i, driving_hours) ==
    IF i > Len(sorted) THEN "ok"
    ELSE LET event == sorted[i]
         IN  IF IsRestStatus(event)
             THEN DrivingLimitLoop(sorted, i + 1,
                    IF Duration(event) >= MINIMUM_REST_HOURS * HOUR THEN 0 ELSE driving_hours)
             ELSE IF event.status = STATUS_DRIVING
             THEN IF driving_hours + Duration(event) > MAX_DRIVING_HOURS * HOUR + TolSeconds
                  THEN "11_HOUR_DRIVING"
                  ELSE DrivingLimitLoop(sorted, i + 1, driving_hours + Duration(event))
             ELSE DrivingLimitLoop(sorted, i + 1, driving_hours)

ensure_driving_limits(events) == DrivingLimitLoop(SortByStart(events), 1, 0)

RECURSIVE RequiredBreaksLoop(_, _, _)
RequiredBreaksLoop(sorted, i, driving_since_break) ==
    IF i > Len(sorted) THEN "ok"
    ELSE LET event == sorted[i]
         IN  IF event.status = STATUS_DRIVING
             THEN IF driving_since_break + Duration(event)
                       > BREAK_REQUIRED_AFTER_HOURS * HOUR + HalfHourSeconds
                  THEN "MISSING_BREAK"
                  ELSE RequiredBreaksLoop(sorted, i + 1, driving_since_break + Duration(event))
             ELSE RequiredBreaksLoop(sorted, i + 1,
                    IF Duration(event) >= HalfHourSeconds THEN 0 ELSE driving_since_break)

ensure_required_breaks(events) == RequiredBreaksLoop(SortByStart(events), 1, 0)

RECURSIVE WindowLoop(_, _, _)
WindowLoop(sorted, i, window_start) ==
    IF i > Len(sorted) THEN "ok"
    ELSE LET event == sorted[i]
             ws == IF IsRestStatus(event)
                   THEN IF Duration(event) >= MINIMUM_REST_HOURS * HOUR
                        THEN NoTime ELSE window_start
                   ELSE IF window_start = NoTime THEN event.start ELSE window_start
         IN  IF event.status = STATUS_DRIVING /\ ws # NoTime
                /\ event.end - ws > MAX_ON_DUTY_WINDOW * HOUR + TolSeconds
             THEN "14_HOUR_WINDOW"
             ELSE WindowLoop(sorted, i + 1, ws)

validate_14_hour_window(events) == WindowLoop(SortByStart(events), 1, NoTime)

\* total on-duty time (driving + on-duty not driving), in seconds
TotalOnDuty(events) ==
    SeqSum([i \in 1..Len(events) |->
              IF events[i].status \in {STATUS_DRIVING, STATUS_ON_DUTY}
              THEN Duration(events[i]) ELSE 0])

validate_cycle_hours(current_cycle_used, events) ==
    IF current_cycle_used * HOUR + TotalOnDuty(events) > MAX_CYCLE_HOURS * HOUR
    THEN "70_HOUR_CYCLE" ELSE "ok"

\* first failure of a sequence of check results
FirstFailure(results) ==
    IF \E i \in 1..Len(results) : results[i] # "ok"
    THEN results[CHOOSE i \in 1..Len(results) :
                   results[i] # "ok" /\ \A j \in 1..(i - 1) : results[j] = "ok"]
    ELSE "ok"

RECURSIVE DayChecks(_, _)
DayChecks(log_days, k) ==
    IF k > Len(log_days) THEN << >>
    ELSE << ensure_exactly_24_hours(log_days[k]),
            ensure_day_segments_contiguous(log_days[k]) >>
         \o DayChecks(log_days, k + 1)

validate_event_sequence(events, log_days) ==
    FirstFailure(<< ensure_no_overlaps(events),
                    ensure_contiguous(events),
                    ensure_valid_statuses(events),
                    ensure_driving_limits(events),
                    ensure_required_breaks(events) >>
                 \o DayChecks(log_days, 1))

validate_before_persistence(events, log_days, current_cycle_hours) ==
    FirstFailure(<< validate_event_sequence(events, log_days),
                    validate_14_hour_window(events),
                    validate_cycle_hours(current_cycle_hours, events) >>)

\* seeded fault: events.sort(key=...) where the checks call sorted(events, ...)
SortedCopy_InPlace(events) ==
    [result |-> SortByStart(events), arg |-> SortByStart(events)]

\* sorted(events, key=lambda e: e.start): a new list is returned and the
\* argument is left as it was
SortedCopy(events) ==
    [result |-> SortByStart(events), arg |-> events]

\* The event list after the checks have run on it.  Every check that reorders
\* does it through sorted(); ensure_no_overlaps sorts before anything raises
EventsAfterChecks(events) == SortedCopy(events).arg

\* The LogDays after the checks have run on them.  The totals are only read;
\* ensure_day_segments_contiguous hands the segments of a day to
\* ensure_contiguous, which sorts them, once every earlier check has passed
LogDaysAfterChecks(events, log_days) ==
    LET evs == FirstFailure(<< ensure_no_overlaps(events),
                               ensure_contiguous(events),
                               ensure_valid_statuses(events),
                               ensure_driving_limits(events),
                               ensure_required_breaks(events) >>)
        days == DayChecks(log_days, 1)
        reached(k) == /\ evs = "ok"
                      /\ \A j \in 1..(2 * k - 1) : days[j] = "ok"
                      /\ log_days[k].segments # << >>
    IN  [k \in 1..Len(log_days) |->
           IF reached(k)
           THEN [log_days[k] EXCEPT !.segments = SortedCopy(@).arg]
           ELSE log_days[k]]

\* validate_before_persistence as a call: what it returns or raises, and
\* its two arguments as they are afterwards
ValidatorCall(events, log_days, current_cycle_hours) ==
    [verdict |-> validate_before_persistence(events, log_days, current_cycle_hours),
     events |-> EventsAfterChecks(events),
     log_days |-> LogDaysAfterChecks(events, log_days)]

\* HOSViolation subclasses carry a rule; the others are HOSValidationError
IsViolationRule(r) == r \in {"70_HOUR_CYCLE", "11_HOUR_DRIVING", "14_HOUR_WINDOW"}

\* ------------------------------------------------------------------------
\* reverse_geocode and its cache (core/routes/services.py)
\* ------------------------------------------------------------------------
\* Coordinates along the route in 1/100000 degree.  The polyline of the
\* modelled routes puts the point of mile m at 10 m + 3; one step further
\* along the same road lies a point of the same 4-decimal bucket.
StopPoint(distUnits) == (distUnits \div MILE) * 10 + 3
Neighbour(point) == point + 1

\* cache_key: the coordinate formatted with 4 decimals
CacheKey(point) == RoundDiv(point, 10)

GeoStopMiles == {400}
GeoPoints ==
    UNION { {StopPoint(m * MILE), Neighbour(StopPoint(m * MILE))} : m \in GeoStopMiles }
GeoKeys == { CacheKey(p) : p \in GeoPoints }

\* the provider's city for a point, or "error" for an error answer or a
\* failed request
GeoAnswers == {"Springfield", "Shelbyville", "error"}
Providers == [GeoPoints -> GeoAnswers]
NoProvider == [p \in GeoPoints |-> "error"]

NoEntry == "none"
EmptyCache == [k \in GeoKeys |-> NoEntry]

\* seeded fault: a cache hit is answered with the fallback
reverse_geocode_HitFallback(cache, prov, point) ==
    LET key == CacheKey(point)
    IN  IF cache[key] # NoEntry
        THEN [city |-> "Unknown", cache |-> cache]
        ELSE IF prov[point] = "error"
        THEN [city |-> "Unknown", cache |-> cache]
        ELSE [city |-> prov[point], cache |-> [cache EXCEPT ![key] = prov[point]]]

\* reverse_geocode: the city it returns and the cache it leaves.  A hit
\* returns the entry; a miss asks the provider, caches a parsed answer and
\* returns the fallback "Unknown", uncached, on an error or a failed request
reverse_geocode(cache, prov, point) ==
    LET key == CacheKey(point)
    IN  IF cache[key] # NoEntry
        THEN [city |-> cache[key], cache |-> cache]
        ELSE IF prov[point] = "error"
        THEN [city |-> "Unknown", cache |-> cache]
        ELSE [city |-> prov[point], cache |-> [cache EXCEPT ![key] = prov[point]]]

\* ------------------------------------------------------------------------
\* Initial state: one trip, just created (PENDING, no logs)
\* ------------------------------------------------------------------------
Inputs ==
    { i \in [speed : Speeds, dist : Distances, frac : {0}, leg1 : Leg1Distances,
             start : StartTimes, cycle : CycleHours] : TRUE }

FirstPos == [day |-> 1, seg |-> 0]

\* everything but the request and the timeline, as it is for a trip just created
Fresh ==
    /\ pc = "idle"
    /\ response = "none"
    /\ geoCache = EmptyCache
    /\ planned = {}
    /\ pipeline = "none"
    /\ leg = "direct"
    /\ ps = EmptyPlanner
    /\ stops = << >>
    /\ segments = << >>
    /\ leg1res = EmptyRoute
    /\ route = EmptyRoute
    /\ es = EmptyEngine
    /\ logDays = << >>
    /\ verdict = "none"
    /\ status = "PENDING"
    /\ errorKind = "none"
    /\ store = << >>
    /\ txn = << >>
    /\ persistPos = FirstPos
    /\ retries = 0
    /\ runs = 0
    /\ dbFailures = 0
    /\ storeAtStart = << >>
    /\ produced = {}

Init ==
    /\ input \in Inputs
    /\ timeline = << >>
    /\ Fresh
    /\ provider = NoProvider

\* ------------------------------------------------------------------------
\* plan_trip_with_route (core/routes/route_planner.py)
\* ------------------------------------------------------------------------
\* lines 79-83: Trip.objects.get and trip.mark_processing()
RouteBegin ==
    /\ pc = "idle"
    /\ runs < MaxRuns
    /\ pc' = "r_route"
    /\ pipeline' = "route"
    /\ runs' = runs + 1
    /\ retries' = 0
    /\ status' = "PROCESSING"
    /\ errorKind' = "none"
    /\ storeAtStart' = store
    /\ verdict' = "none"
    /\ timeline' = << >>
    /\ logDays' = << >>
    /\ leg' = IF input.leg1 = 0 THEN "direct" ELSE "first"
    /\ ps' = EmptyPlanner
    /\ stops' = << >>
    /\ segments' = << >>
    /\ leg1res' = EmptyRoute
    /\ route' = EmptyRoute
    /\ es' = EmptyEngine
    /\ UNCHANGED <<input, response, geoVars, planned, dbVars, produced>>

\* route.distance_miles of the leg to the dropoff: the provider's metres in
\* miles, a float; frac is the part beyond the whole miles, in 1/3600 mile
RouteDistance(i) == i.dist * MILE + i.frac

\* plan_route for the current leg, up to Phase 1 of calculate_hos_stops
RoutePlanLeg ==
    /\ pc = "r_route"
    /\ LET r == IF leg = "first"
                THEN PlannerStart(input.start, input.leg1 * MILE, FALSE, FALSE,
                                  "Origin", "Pickup")
                ELSE IF leg = "second"
                THEN PlannerStart(Leg1EndTime(leg1res.stops, input.start),
                                  RouteDistance(input), TRUE, TRUE, "Pickup", "Dest")
                ELSE PlannerStart(input.start, RouteDistance(input), TRUE, TRUE,
                                  "Origin", "Dest")
       IN  /\ ps' = r.ps
           /\ stops' = r.stops
    /\ segments' = << >>
    /\ pc' = "r_plan"
    /\ UNCHANGED <<input, response, geoVars, planned, pipeline, leg, leg1res, route, es, timeline, logDays,
                   verdict, status, errorKind, dbVars, retries, runs,
                   storeAtStart, produced>>

\* one iteration of "while current_distance_miles < distance_miles"
PlanStep ==
    /\ pc = "r_plan"
    /\ ps.dist < ps.D
    /\ LET r == PlannerIteration(ps, stops, segments, input.speed)
       IN  /\ ps' = r.ps
           /\ stops' = r.stops
           /\ segments' = r.segments
    /\ UNCHANGED <<input, response, geoVars, planned, pc, pipeline, leg, leg1res, route, es, timeline, logDays,
                   verdict, status, errorKind, dbVars, retries, runs,
                   storeAtStart, produced>>

\* loop exit: final segment, dropoff, RouteResult; the orchestrator keeps
\* leg 1 and goes on to leg 2, or merges and goes on to the logbook
PlanReturn ==
    /\ pc = "r_plan"
    /\ ps.dist >= ps.D
    /\ LET res == RouteResult(ps.D, PlannerFinish(ps, stops, segments))
       IN  IF leg = "first"
           THEN /\ leg1res' = res
                /\ leg' = "second"
                /\ route' = route
                /\ planned' = planned
                /\ pc' = "r_route"
           ELSE /\ route' = IF leg = "second" THEN MergeLegs(leg1res, res) ELSE res
                /\ planned' = planned \cup {[stops |-> route'.stops,
                                              segments |-> route'.segments]}
                /\ UNCHANGED <<leg, leg1res>>
                /\ pc' = "r_transform"
    /\ UNCHANGED <<input, response, geoVars, pipeline, ps, stops, segments, es, timeline, logDays,
                   verdict, status, errorKind, dbVars, retries, runs,
                   storeAtStart, produced>>

\* STEP 2: generate_logbook_from_route
RouteTransform ==
    /\ pc = "r_transform"
    /\ timeline' = BuildTimeline(route.stops, input.start, "Origin")
    /\ \E ties \in TieChoices : logDays' = LogDaysFromTimeline(timeline', ties)
    /\ produced' = produced \cup {logDays'}
    /\ persistPos' = FirstPos
    /\ pc' = "r_persist"
    /\ UNCHANGED <<input, response, geoVars, planned, pipeline, plannerVars, es, verdict, status, errorKind,
                   store, txn, dbFailures, retries, runs, storeAtStart>>

NextPos(days, pos) ==
    IF pos.seg < Len(days[pos.day].segments)
    THEN [day |-> pos.day, seg |-> pos.seg + 1]
    ELSE [day |-> pos.day + 1, seg |-> 0]

\* the "except Exception" handler: trip.mark_failed, raise RoutePlannerError
RouteFailed ==
    /\ status' = "FAILED"
    /\ errorKind' = "internal"
    /\ pc' = "idle"

\* STEP 3, persist_logbook_to_database: LogDay.objects.create of one day.
\* No transaction is open: the row is committed at once.  A LogDay of the
\* same (trip, date) makes the insert fail (unique_together).
RoutePersistLogDay ==
    /\ pc = "r_persist"
    /\ persistPos.day <= Len(logDays)
    /\ persistPos.seg = 0
    /\ IF HasDay(store, logDays[persistPos.day].date)
       THEN /\ RouteFailed
            /\ UNCHANGED <<store, persistPos>>
       ELSE /\ store' = Append(store, [logDays[persistPos.day] EXCEPT !.segments = << >>])
            /\ persistPos' = NextPos(logDays, persistPos)
            /\ UNCHANGED <<status, errorKind, pc>>
    /\ UNCHANGED <<input, response, geoVars, planned, pipeline, plannerVars, es, timeline, logDays, verdict,
                   txn, dbFailures, retries, runs, storeAtStart, produced>>

\* DutySegment.objects.create of one segment of the day just created
RoutePersistSegment ==
    /\ pc = "r_persist"
    /\ persistPos.day <= Len(logDays)
    /\ persistPos.seg >= 1
    /\ store' = [k \in 1..Len(store) |->
                   IF store[k].date = logDays[persistPos.day].date
                   THEN [store[k] EXCEPT !.segments =
                           Append(@, logDays[persistPos.day].segments[persistPos.seg])]
                   ELSE store[k]]
    /\ persistPos' = NextPos(logDays, persistPos)
    /\ UNCHANGED <<input, response, geoVars, planned, pc, pipeline, plannerVars, es, timeline, logDays, verdict,
                   status, errorKind, txn, dbFailures, retries, runs,
                   storeAtStart, produced>>

\* a database error on the next insert
RoutePersistDbError ==
    /\ pc = "r_persist"
    /\ persistPos.day <= Len(logDays)
    /\ persistPos.seg <= MaxFailSegment
    /\ dbFailures < MaxDbFailures
    /\ dbFailures' = dbFailures + 1
    /\ RouteFailed
    /\ UNCHANGED <<input, response, geoVars, planned, pipeline, plannerVars, es, timeline, logDays, verdict,
                   store, txn, persistPos, retries, runs, storeAtStart, produced>>

\* lines 178-181: trip.mark_completed()
RouteComplete ==
    /\ pc = "r_persist"
    /\ persistPos.day > Len(logDays)
    /\ status' = "COMPLETED"
    /\ errorKind' = "none"
    /\ pc' = "idle"
    /\ UNCHANGED <<input, response, geoVars, planned, pipeline, plannerVars, es, timeline, logDays, verdict,
                   dbVars, retries, runs, storeAtStart, produced>>

\* ------------------------------------------------------------------------
\* generate_logs_for_trip (core/trips/tasks.py)
\* ------------------------------------------------------------------------
\* lines 243-262: Trip.objects.get, STEP 1 trip.mark_processing()
EngineMarkProcessing ==
    /\ pipeline' = "engine"
    /\ status' = "PROCESSING"
    /\ errorKind' = "none"
    /\ storeAtStart' = store
    /\ verdict' = "none"
    /\ timeline' = << >>
    /\ logDays' = << >>
    /\ es' = EmptyEngine
    /\ pc' = "e_start"
    /\ UNCHANGED <<input, response, geoVars, planned, plannerVars, dbVars, produced>>

\* the task is delivered for a (re)plan of the trip
EngineBegin ==
    /\ pc = "idle"
    /\ runs < MaxRuns
    /\ runs' = runs + 1
    /\ retries' = 0
    /\ EngineMarkProcessing

\* the task is delivered again after self.retry
EngineRetry ==
    /\ pc = "e_retry"
    /\ UNCHANGED <<runs, retries>>
    /\ EngineMarkProcessing

\* STEP 2, generate_duty_events: HOSState and Phase 1 (pickup)
EngineStartEvents ==
    /\ pc = "e_start"
    /\ LET r == EngineStart(input.start, input.dist, input.cycle)
       IN  /\ es' = r.es
           /\ timeline' = r.events
    /\ pc' = "e_gen"
    /\ UNCHANGED <<input, response, geoVars, planned, pipeline, plannerVars, logDays, verdict, status, errorKind,
                   dbVars, retries, runs, storeAtStart, produced>>

\* one pass of "while state.miles_remaining > 0"
EngineStep ==
    /\ pc = "e_gen"
    /\ es.milesRem > 0
    /\ ~es.exited
    /\ LET r == EngineIteration(es, timeline, input.speed)
       IN  /\ es' = r.es
           /\ timeline' = r.events
    /\ UNCHANGED <<input, response, geoVars, planned, pc, pipeline, plannerVars, logDays, verdict, status,
                   errorKind, dbVars, retries, runs, storeAtStart, produced>>

\* loop exit: Phase 3 and Phase 4, generate_duty_events returns
EngineReturn ==
    /\ pc = "e_gen"
    /\ es.milesRem <= 0 \/ es.exited
    /\ timeline' = EngineFinish(es, timeline)
    /\ pc' = "e_split"
    /\ UNCHANGED <<input, response, geoVars, planned, pipeline, plannerVars, es, logDays, verdict, status,
                   errorKind, dbVars, retries, runs, storeAtStart, produced>>

\* STEP 3: split_events_into_log_days
EngineSplit ==
    /\ pc = "e_split"
    /\ \E ties \in TieChoices : logDays' = split_events_into_log_days(timeline, ties)
    /\ produced' = produced \cup {logDays'}
    /\ pc' = "e_validate"
    /\ UNCHANGED <<input, response, geoVars, planned, pipeline, plannerVars, es, timeline, verdict, status,
                   errorKind, dbVars, retries, runs, storeAtStart>>

\* STEP 4: validate_before_persistence.  An HOSException goes to the
\* "except HOSException" handler: trip.mark_failed, return, no retry.
EngineValidate ==
    /\ pc = "e_validate"
    /\ LET r == validate_before_persistence(timeline, logDays, input.cycle)
       IN  IF r = "ok"
           THEN /\ verdict' = "accepted"
                /\ pc' = "e_persist"
                /\ UNCHANGED <<status, errorKind>>
           ELSE /\ verdict' = "rejected"
                /\ status' = "FAILED"
                /\ errorKind' = r
                /\ pc' = "idle"
    /\ UNCHANGED <<input, response, geoVars, planned, pipeline, plannerVars, es, timeline, logDays,
                   dbVars, retries, runs, storeAtStart, produced>>

\* STEP 5: transaction.atomic() is entered and _delete_existing_logs runs
\* inside it; txn is the transaction's own view of the trip's rows
EngineDeleteExisting ==
    /\ pc = "e_persist"
    /\ txn' = << >>
    /\ persistPos' = FirstPos
    /\ pc' = "e_insert"
    /\ UNCHANGED <<input, response, geoVars, planned, pipeline, plannerVars, es, timeline, logDays, verdict,
                   status, errorKind, store, dbFailures, retries, runs,
                   storeAtStart, produced>>

\* LogDay.objects.create and DutySegment.objects.bulk_create of one day
EngineInsertDay ==
    /\ pc = "e_insert"
    /\ persistPos.day <= Len(logDays)
    /\ txn' = Append(txn, logDays[persistPos.day])
    /\ persistPos' = [day |-> persistPos.day + 1, seg |-> 0]
    /\ UNCHANGED <<input, response, geoVars, planned, pc, pipeline, plannerVars, es, timeline, logDays, verdict,
                   status, errorKind, store, dbFailures, retries, runs,
                   storeAtStart, produced>>

\* the atomic block is left: the transaction commits
EngineCommit ==
    /\ pc = "e_insert"
    /\ persistPos.day > Len(logDays)
    /\ store' = txn
    /\ txn' = << >>
    /\ pc' = "e_mark"
    /\ UNCHANGED <<input, response, geoVars, planned, pipeline, plannerVars, es, timeline, logDays, verdict,
                   status, errorKind, persistPos, dbFailures, retries, runs,
                   storeAtStart, produced>>

\* STEP 6: trip.mark_completed()
EngineMarkCompleted ==
    /\ pc = "e_mark"
    /\ status' = "COMPLETED"
    /\ errorKind' = "none"
    /\ pc' = "idle"
    /\ UNCHANGED <<input, response, geoVars, planned, pipeline, plannerVars, es, timeline, logDays, verdict,
                   dbVars, retries, runs, storeAtStart, produced>>

\* seeded fault: self.retry allows one retry more than max_retries
RetryAllowed_OneMore == retries <= MAX_RETRIES

\* self.retry reschedules the task while request.retries < max_retries and
\* re-raises the exception otherwise
RetryAllowed == retries < MAX_RETRIES

\* "except Exception": trip.mark_failed, then raise self.retry(exc=exc)
TaskFailed ==
    /\ status' = "FAILED"
    /\ errorKind' = "internal"
    /\ IF RetryAllowed
       THEN /\ retries' = retries + 1
            /\ pc' = "e_retry"
       ELSE /\ retries' = retries
            /\ pc' = "idle"

\* a database error inside the atomic block: the transaction rolls back,
\* "except Exception" marks the trip failed and raises self.retry
EnginePersistDbError ==
    /\ pc \in {"e_persist", "e_insert"}
    /\ dbFailures < MaxDbFailures
    /\ dbFailures' = dbFailures + 1
    /\ txn' = << >>
    /\ TaskFailed
    /\ UNCHANGED <<input, response, geoVars, planned, pipeline, plannerVars, es, timeline, logDays, verdict,
                   store, persistPos, runs, storeAtStart, produced>>

\* the same error in a run of the task on which the number of failures is
\* limited by the retry policy alone
EngineTransientError ==
    /\ pc \in {"e_persist", "e_insert"}
    /\ txn' = << >>
    /\ TaskFailed
    /\ UNCHANGED <<input, response, geoVars, planned, pipeline, plannerVars, es, timeline, logDays, verdict,
                   store, persistPos, dbFailures, runs, storeAtStart, produced>>

\* ------------------------------------------------------------------------
\* Specification
\* ------------------------------------------------------------------------
Next ==
    \/ RouteBegin
    \/ RoutePlanLeg
    \/ PlanStep
    \/ PlanReturn
    \/ RouteTransform
    \/ RoutePersistLogDay
    \/ RoutePersistSegment
    \/ RoutePersistDbError
    \/ RouteComplete
    \/ EngineBegin
    \/ EngineRetry
    \/ EngineStartEvents
    \/ EngineStep
    \/ EngineReturn
    \/ EngineSplit
    \/ EngineValidate
    \/ EngineDeleteExisting
    \/ EngineInsertDay
    \/ EngineCommit
    \/ EngineMarkCompleted
    \/ EnginePersistDbError

Spec == Init /\ [][Next]_vars


\* ------------------------------------------------------------------------
\* Generation only: both pipelines from the request to the LogDays (and, for
\* the engine task, the validator's verdict), over the wider inputs
\* ------------------------------------------------------------------------
PlanInputs ==
    { i \in [speed : PlanSpeeds, dist : PlanDistances, frac : {0},
             leg1 : PlanLeg1Distances,
             start : StartTimes, cycle : CycleHours] : TRUE }

InitPlan ==
    /\ input \in PlanInputs
    /\ timeline = << >>
    /\ Fresh
    /\ provider = NoProvider

NextPlan ==
    \/ RouteBegin
    \/ RoutePlanLeg
    \/ PlanStep
    \/ PlanReturn
    \/ RouteTransform
    \/ EngineBegin
    \/ EngineStartEvents
    \/ EngineStep
    \/ EngineReturn
    \/ EngineSplit
    \/ EngineValidate

SpecPlan == InitPlan /\ [][NextPlan]_vars

\* ------------------------------------------------------------------------
\* The two midnight splitters as pure functions of one event of any length
\* ------------------------------------------------------------------------
InitSplit ==
    /\ input \in { i \in Inputs : i.dist = 1 /\ i.leg1 = 0 /\ i.cycle = 0
                                  /\ i.start = 21600 }
    /\ Fresh
    /\ provider = NoProvider
    /\ \E s \in SplitStarts, d \in SplitDurations, st \in VALID_STATUSES :
         timeline = << Event(s, s + d, st, "Town", "Event") >>

\* generate_logbook_from_route from the timeline on
SplitRoute ==
    /\ pc = "idle"
    /\ pipeline = "none"
    /\ \E ties \in TieChoices : logDays' = LogDaysFromTimeline(timeline, ties)
    /\ pipeline' = "route"
    /\ UNCHANGED <<input, response, geoVars, planned, pc, plannerVars, es, timeline, verdict, status, errorKind,
                   dbVars, retries, runs, storeAtStart, produced>>

\* split_events_into_log_days
SplitEngine ==
    /\ pc = "idle"
    /\ pipeline = "none"
    /\ \E ties \in TieChoices : logDays' = split_events_into_log_days(timeline, ties)
    /\ pipeline' = "engine"
    /\ UNCHANGED <<input, response, geoVars, planned, pc, plannerVars, es, timeline, verdict, status, errorKind,
                   dbVars, retries, runs, storeAtStart, produced>>

NextSplit ==
    \/ SplitRoute
    \/ SplitEngine

SpecSplit == InitSplit /\ [][NextSplit]_vars

\* ------------------------------------------------------------------------
\* Long trips: calculate_hos_stops alone on one direct leg, over
\* distances long enough for the fuel interval to fall on a break or a rest
\* ------------------------------------------------------------------------
LongSpeeds == {50}
LongDistances == {999, 1000, 1001, 3000, 7200, 17000}

LongInputs ==
    { i \in [speed : LongSpeeds, dist : LongDistances, frac : {0}, leg1 : {0},
             start : {FirstStart}, cycle : {0}] : TRUE }

InitLong ==
    /\ input \in LongInputs
    /\ timeline = << >>
    /\ Fresh
    /\ provider = NoProvider

NextLong ==
    \/ RouteBegin
    \/ RoutePlanLeg
    \/ PlanStep
    \/ PlanReturn

SpecLong == InitLong /\ [][NextLong]_vars

\* ------------------------------------------------------------------------
\* Retries: the engine task alone, every attempt of which may
\* fail in the database
\* ------------------------------------------------------------------------
RetryInputs ==
    { i \in [speed : Speeds, dist : Distances, frac : {0}, leg1 : {0},
             start : {FirstStart}, cycle : CycleHours] : TRUE }

InitRetry ==
    /\ input \in RetryInputs
    /\ timeline = << >>
    /\ Fresh
    /\ provider = NoProvider

NextRetry ==
    \/ EngineBegin
    \/ EngineRetry
    \/ EngineStartEvents
    \/ EngineStep
    \/ EngineReturn
    \/ EngineSplit
    \/ EngineValidate
    \/ EngineDeleteExisting
    \/ EngineInsertDay
    \/ EngineCommit
    \/ EngineMarkCompleted
    \/ EngineTransientError

SpecRetry == InitRetry /\ [][NextRetry]_vars


\* ------------------------------------------------------------------------
\* generate_logs_with_route (core/trips/tasks.py) and the provider failures
\* of plan_trip_with_route
\* ------------------------------------------------------------------------
\* GeocodingError and RoutingError (core/routes/services.py), raised by
\* geocode_location and calculate_route inside plan_route
ProviderFailures == {"GeocodingError", "RoutingError"}

\* the subclasses of HOSException (core/hos/exceptions.py)
HOSExceptions ==
    {"HOSException", "HOSViolation", "HOSValidationError", "HOSCycleExhausted",
     "HOSDrivingLimitExceeded", "HOSWindowExceeded", "InvalidLogSequence"}

\* the class of the exception that leaves plan_trip_with_route: each of its
\* three handlers ends with "raise RoutePlannerError(error_msg) from e"
OrchestratorRaises(cause) ==
    IF cause = "GeocodingError" THEN "RoutePlannerError"
    ELSE IF cause = "RoutingError" THEN "RoutePlannerError"
    ELSE "RoutePlannerError"

\* what the orchestrator's handler writes to Trip.error_message
OrchestratorMessage(cause) ==
    IF cause = "GeocodingError" THEN "Failed to geocode location"
    ELSE IF cause = "RoutingError" THEN "Failed to calculate route"
    ELSE "internal"

\* the except clause of generate_logs_with_route that catches an exception of
\* class exc, in the order the clauses are written: the error_type it
\* returns, whether it marks the trip FAILED, whether it calls self.retry
RouteTaskHandler(exc) ==
    IF exc = "DoesNotExist"
    THEN [errorType |-> "not_found", markFailed |-> FALSE, retry |-> FALSE]
    ELSE IF exc = "GeocodingError"
    THEN [errorType |-> "geocoding_error", markFailed |-> TRUE, retry |-> FALSE]
    ELSE IF exc = "RoutingError"
    THEN [errorType |-> "routing_error", markFailed |-> TRUE, retry |-> FALSE]
    ELSE IF exc \in HOSExceptions
    THEN [errorType |-> "hos_violation", markFailed |-> TRUE, retry |-> FALSE]
    ELSE [errorType |-> "internal", markFailed |-> TRUE, retry |-> TRUE]

\* the call of plan_trip_with_route at tasks.py:112 passes trip= and
\* destination=, which the function does not take, and neither trip_id nor
\* dropoff_location, which it requires: Python raises TypeError on the call
RouteTaskCallRaises == "TypeError"

\* lines 90-97: Trip.objects.get and STEP 1 trip.mark_processing()
RouteTaskMarkProcessing ==
    /\ pipeline' = "task"
    /\ status' = "PROCESSING"
    /\ errorKind' = "none"
    /\ storeAtStart' = store
    /\ verdict' = "none"
    /\ pc' = "t_call"
    /\ UNCHANGED <<input, response, geoVars, planned, plannerVars, es, timeline, logDays, dbVars,
                   produced>>

\* the task is delivered for the trip
RouteTaskBegin ==
    /\ pc = "idle"
    /\ runs < MaxRuns
    /\ runs' = runs + 1
    /\ retries' = 0
    /\ RouteTaskMarkProcessing

\* the task is delivered again after self.retry
RouteTaskRetry ==
    /\ pc = "t_retry"
    /\ UNCHANGED <<runs, retries>>
    /\ RouteTaskMarkProcessing

\* STEP 2, the call of plan_trip_with_route, and the except clause that
\* catches what it raises
RouteTaskCall ==
    /\ pc = "t_call"
    /\ LET h == RouteTaskHandler(RouteTaskCallRaises)
       IN  /\ status' = IF h.markFailed THEN "FAILED" ELSE status
           /\ errorKind' = h.errorType
           /\ IF h.retry /\ RetryAllowed
              THEN retries' = retries + 1 /\ pc' = "t_retry"
              ELSE retries' = retries /\ pc' = "idle"
    /\ UNCHANGED <<input, response, geoVars, planned, pipeline, plannerVars, es, timeline, logDays,
                   verdict, dbVars, runs, storeAtStart, produced>>

\* plan_route fails in geocode_location or calculate_route; the handler of that
\* class in plan_trip_with_route marks the trip failed and raises
RouteProviderError(cause) ==
    /\ pc = "r_route"
    /\ status' = "FAILED"
    /\ errorKind' = OrchestratorMessage(cause)
    /\ pc' = "idle"
    /\ UNCHANGED <<input, response, geoVars, planned, pipeline, plannerVars, es, timeline, logDays,
                   verdict, dbVars, retries, runs, storeAtStart, produced>>

RouteGeoError == \E cause \in ProviderFailures : RouteProviderError(cause)

\* ------------------------------------------------------------------------
\* TripViewSet.cancel (core/trips/views.py)
\* ------------------------------------------------------------------------
\* seeded fault: the "already failed" refusal is missing
CancelRefused_NoFailed(s) == s = "COMPLETED" \/ s = "CANCELLED"

\* the three refusals, HTTP 400
CancelRefused(s) == s = "COMPLETED" \/ s = "FAILED" \/ s = "CANCELLED"

\* POST /trips/{id}/cancel/, at any moment of the trip's life
cancel ==
    /\ IF CancelRefused(status)
       THEN /\ response' = "error"
            /\ UNCHANGED <<status, errorKind>>
       ELSE /\ status' = "CANCELLED"
            /\ errorKind' = "Cancelled by user"
            /\ response' = "success"
    /\ UNCHANGED <<input, geoVars, planned, pc, pipeline, plannerVars, es, timeline,
                   logDays, verdict, dbVars, retries, runs, storeAtStart, produced>>

\* ------------------------------------------------------------------------
\* Life of a trip: the three entry points and the failures, with the worker
\* running each delivered task to its end
\* ------------------------------------------------------------------------
LifeDistances == {1, 100}
LifeFractions == {0, 1000}

LifeInputs ==
    { i \in [speed : Speeds, dist : LifeDistances, frac : LifeFractions, leg1 : {0},
             start : {FirstStart}, cycle : CycleHours] : TRUE }

InitLife ==
    /\ input \in LifeInputs
    /\ timeline = << >>
    /\ Fresh
    /\ provider = NoProvider

\* the next step of the code of a call or task that has started
TaskStep ==
    \/ RoutePlanLeg
    \/ PlanStep
    \/ PlanReturn
    \/ RoutePersistLogDay
    \/ RoutePersistSegment
    \/ RouteComplete
    \/ EngineRetry
    \/ EngineStartEvents
    \/ EngineStep
    \/ EngineReturn
    \/ EngineDeleteExisting
    \/ EngineInsertDay
    \/ EngineCommit
    \/ EngineMarkCompleted
    \/ RouteTaskRetry
    \/ RouteTaskCall

NextLife ==
    \/ TaskStep
    \/ RouteTransform
    \/ EngineSplit
    \/ EngineValidate
    \/ RouteBegin
    \/ EngineBegin
    \/ RouteTaskBegin
    \/ RouteGeoError
    \/ EngineTransientError

\* the call or task leaves position from: RouteTransform, EngineSplit and
\* EngineValidate are enabled in every state at their position and are the
\* only steps that move pc from it
Leaves(from, to) == pc = from /\ pc' \in to

\* a started Python call runs on, and Celery delivers a retried task again
\* after its countdown: no step of the code that can be taken is put off
\* forever.  Nothing makes a request, a failure or a cancellation happen.
LifeFairness ==
    /\ WF_vars(TaskStep)
    /\ WF_pc(Leaves("r_transform", {"r_persist"}))
    /\ WF_pc(Leaves("e_split", {"e_validate"}))
    /\ WF_pc(Leaves("e_validate", {"e_persist", "idle"}))

SpecLife == InitLife /\ [][NextLife]_vars /\ LifeFairness

\* ------------------------------------------------------------------------
\* Cancellation: a cancel request may arrive between any two steps of the
\* trip's life
\* ------------------------------------------------------------------------
NextCancel ==
    \/ NextLife
    \/ cancel

SpecCancel == InitLife /\ [][NextCancel]_vars


\* ------------------------------------------------------------------------
\* The geo cache: plan_trip_with_route with reverse geocoding of the stops,
\* beside other requests that fill the cache and entries that expire
\* ------------------------------------------------------------------------
GeoDistances == {450, 500}

GeoInputs ==
    { i \in [speed : Speeds, dist : GeoDistances, frac : {0}, leg1 : {0},
             start : {FirstStart}, cycle : {0}] : TRUE }

InitGeo ==
    /\ input \in GeoInputs
    /\ timeline = << >>
    /\ Fresh
    /\ provider \in Providers

\* one iteration of the drive loop with skip_reverse_geocoding = False: the
\* city of an inserted stop is the one reverse_geocode returns for the
\* stop's point ("Unknown" if it raises)
GeoPlanStep ==
    /\ pc = "r_plan"
    /\ ps.dist < ps.D
    /\ LET r == PlannerIteration(ps, stops, segments, input.speed)
           g == reverse_geocode(geoCache, provider, StopPoint(r.ps.dist))
       IN  /\ ps' = r.ps
           /\ segments' = r.segments
           /\ IF Len(r.stops) > Len(stops)
              THEN /\ stops' = [r.stops EXCEPT ![Len(r.stops)].city = g.city]
                   /\ geoCache' = g.cache
              ELSE /\ stops' = r.stops
                   /\ geoCache' = geoCache
    /\ UNCHANGED <<input, response, provider, planned, pc, pipeline, leg, leg1res,
                   route, es, timeline, logDays, verdict, status, errorKind, dbVars,
                   retries, runs, storeAtStart, produced>>

\* another request reverse-geocodes a point (preview_route, another trip)
OtherReverseGeocode ==
    /\ \E point \in GeoPoints :
         geoCache' = reverse_geocode(geoCache, provider, point).cache
    /\ UNCHANGED <<input, response, provider, planned, pc, pipeline, plannerVars, es,
                   timeline, logDays, verdict, status, errorKind, dbVars, retries,
                   runs, storeAtStart, produced>>

\* an entry outlives GEOCODE_CACHE_TIMEOUT and is dropped
GeoCacheExpire ==
    /\ \E key \in GeoKeys :
         /\ geoCache[key] # NoEntry
         /\ geoCache' = [geoCache EXCEPT ![key] = NoEntry]
    /\ UNCHANGED <<input, response, provider, planned, pc, pipeline, plannerVars, es,
                   timeline, logDays, verdict, status, errorKind, dbVars, retries,
                   runs, storeAtStart, produced>>

NextGeo ==
    \/ RouteBegin
    \/ RoutePlanLeg
    \/ GeoPlanStep
    \/ PlanReturn
    \/ RouteTransform
    \/ RoutePersistLogDay
    \/ RoutePersistSegment
    \/ RouteComplete
    \/ OtherReverseGeocode
    \/ GeoCacheExpire

SpecGeo == InitGeo /\ [][NextGeo]_vars

\* ------------------------------------------------------------------------
\* Night trips: generation in both pipelines for trips that start in the
\* evening and drive through midnight
\* ------------------------------------------------------------------------
NightStarts == {72000, 79200, 84600}
NightDistances == {100, 300, 600}

NightInputs ==
    { i \in [speed : Speeds, dist : NightDistances, frac : {0}, leg1 : {0, 300},
             start : NightStarts, cycle : {0}] : TRUE }

InitNight ==
    /\ input \in NightInputs
    /\ timeline = << >>
    /\ Fresh
    /\ provider = NoProvider

SpecNight == InitNight /\ [][NextPlan]_vars

\* ------------------------------------------------------------------------
\* The long haul of test_engine.py: 2800 miles at 55 mph from 08:00, in
\* both pipelines
\* ------------------------------------------------------------------------
HaulSpeed == 55
HaulMiles == 2800
HaulStart == 28800
HaulCycles == {0, 20}

HaulInputs ==
    { i \in [speed : {HaulSpeed}, dist : {HaulMiles}, frac : {0}, leg1 : {0},
             start : {HaulStart}, cycle : HaulCycles] : TRUE }

InitHaul ==
    /\ input \in HaulInputs
    /\ timeline = << >>
    /\ Fresh
    /\ provider = NoProvider

SpecHaul == InitHaul /\ [][NextPlan]_vars

\* ------------------------------------------------------------------------
\* The compliance validator as a function of any short event list, sorted
\* or not, well-formed or not, and of the LogDays split from it
\* ------------------------------------------------------------------------
CheckStarts == {0, 21600, 32400}
CheckDurations == {21600, 32400}
CheckStatuses == {STATUS_DRIVING, STATUS_ON_DUTY, STATUS_OFF_DUTY, "PERSONAL"}
CheckCycles == {0, 60}
MaxCheckEvents == 2

CheckEvents ==
    { Event(s, s + d, st, "Town", "Event") :
        s \in CheckStarts, d \in CheckDurations, st \in CheckStatuses }

CheckTimelines ==
    UNION { [1..n -> CheckEvents] : n \in 1..MaxCheckEvents }

InitChecks ==
    /\ input \in { i \in [speed : {50}, dist : {1}, frac : {0}, leg1 : {0},
                          start : {21600}, cycle : CheckCycles] : TRUE }
    /\ Fresh
    /\ provider = NoProvider
    /\ timeline \in CheckTimelines

\* split_events_into_log_days on the list
CheckSplit ==
    /\ pc = "idle"
    /\ pipeline = "none"
    /\ \E ties \in TieChoices : logDays' = split_events_into_log_days(timeline, ties)
    /\ pipeline' = "engine"
    /\ UNCHANGED <<input, response, geoVars, planned, pc, plannerVars, es, timeline,
                   verdict, status, errorKind, dbVars, retries, runs, storeAtStart,
                   produced>>

\* validate_before_persistence(events, log_days, current_cycle_hours)
CheckValidate ==
    /\ pc = "idle"
    /\ pipeline = "engine"
    /\ verdict = "none"
    /\ LET call == ValidatorCall(timeline, logDays, input.cycle)
       IN  /\ verdict' = IF call.verdict = "ok" THEN "accepted" ELSE "rejected"
           /\ errorKind' = call.verdict
           /\ timeline' = call.events
           /\ logDays' = call.log_days
    /\ UNCHANGED <<input, response, geoVars, planned, pc, pipeline, plannerVars, es,
                   status, dbVars, retries, runs, storeAtStart, produced>>

NextChecks ==
    \/ CheckSplit
    \/ CheckValidate

SpecChecks == InitChecks /\ [][NextChecks]_vars

\* ------------------------------------------------------------------------
\* ensure_no_overlaps as a function of any list of up to three events, in
\* any order.  A DutyEvent ends after it starts (__post_init__)
\* ------------------------------------------------------------------------
OverlapStarts == {0, 3600, 7200}
OverlapDurations == {3600, 7200, 10800}
MaxOverlapEvents == 3

OverlapEvents ==
    { Event(s, s + d, STATUS_ON_DUTY, "Town", "Event") :
        s \in OverlapStarts, d \in OverlapDurations }

InitOverlap ==
    /\ input \in { i \in [speed : {50}, dist : {1}, frac : {0}, leg1 : {0},
                          start : {FirstStart}, cycle : {0}] : TRUE }
    /\ Fresh
    /\ provider = NoProvider
    /\ timeline \in UNION { [1..n -> OverlapEvents] : n \in 1..MaxOverlapEvents }

\* ensure_no_overlaps(events): returns, or raises InvalidLogSequence
OverlapCheck ==
    /\ pc = "idle"
    /\ verdict = "none"
    /\ LET r == ensure_no_overlaps(timeline)
       IN  /\ verdict' = IF r = "ok" THEN "accepted" ELSE "rejected"
           /\ errorKind' = r
    /\ UNCHANGED <<input, response, geoVars, planned, pc, pipeline, plannerVars, es,
                   timeline, logDays, status, dbVars, retries, runs, storeAtStart,
                   produced>>

NextOverlap == OverlapCheck

SpecOverlap == InitOverlap /\ [][NextOverlap]_vars

\* ------------------------------------------------------------------------
\* Properties
\* ------------------------------------------------------------------------
Max2(a, b) == IF a >= b THEN a ELSE b

\* the run has produced its whole timeline
TimelineEmitted ==
    /\ runs > 0
    /\ pc \notin {"r_route", "r_plan", "r_transform", "e_start", "e_gen"}

\* an OFF_DUTY or SLEEPER event of at least 10 h
IsLongRest(e) == IsRestStatus(e) /\ Duration(e) >= MINIMUM_REST_HOURS * HOUR

\* the largest DRIVING total of a span of tl that holds no long rest
RECURSIVE MaxDrivingWithoutRest(_, _, _, _)
MaxDrivingWithoutRest(tl, i, acc, best) ==
    IF i > Len(tl) THEN best
    ELSE IF IsLongRest(tl[i]) THEN MaxDrivingWithoutRest(tl, i + 1, 0, best)
    ELSE IF tl[i].status = STATUS_DRIVING
    THEN MaxDrivingWithoutRest(tl, i + 1, acc + Duration(tl[i]),
                               Max2(best, acc + Duration(tl[i])))
    ELSE MaxDrivingWithoutRest(tl, i + 1, acc, best)

\* every DRIVING event of tl ends within 14 h + 0.02 h of the first on-duty
\* event of its duty period (w is that event's start, NoTime before it)
RECURSIVE DrivingInsideWindow(_, _, _)
DrivingInsideWindow(tl, i, w) ==
    IF i > Len(tl) THEN TRUE
    ELSE IF IsLongRest(tl[i]) THEN DrivingInsideWindow(tl, i + 1, NoTime)
    ELSE IF tl[i].status \in {STATUS_ON_DUTY, STATUS_DRIVING}
    THEN LET w2 == IF w = NoTime THEN tl[i].start ELSE w
         IN  /\ tl[i].status = STATUS_DRIVING
                  => tl[i].end - w2 <= MAX_ON_DUTY_WINDOW * HOUR + TolSeconds
             /\ DrivingInsideWindow(tl, i + 1, w2)
    ELSE DrivingInsideWindow(tl, i + 1, w)

\* the largest DRIVING total since the latest non-driving event of >= 30 min
RECURSIVE MaxDrivingSinceBreak(_, _, _, _)
MaxDrivingSinceBreak(tl, i, acc, best) ==
    IF i > Len(tl) THEN best
    ELSE IF tl[i].status = STATUS_DRIVING
    THEN MaxDrivingSinceBreak(tl, i + 1, acc + Duration(tl[i]),
                              Max2(best, acc + Duration(tl[i])))
    ELSE IF Duration(tl[i]) >= BREAK_DURATION_MINUTES * MINUTE
    THEN MaxDrivingSinceBreak(tl, i + 1, 0, best)
    ELSE MaxDrivingSinceBreak(tl, i + 1, acc, best)

\* C1: in every emitted timeline, direct or two-leg, the DRIVING total of any
\* span without an OFF_DUTY/SLEEPER event of at least 10 h is at most
\* 11 h + 0.02 h.
C1_DrivingBound ==
    TimelineEmitted =>
        MaxDrivingWithoutRest(timeline, 1, 0, 0) <= MAX_DRIVING_HOURS * HOUR + TolSeconds

\* C2: in every emitted timeline every DRIVING event ends no later than
\* 14 h + 0.02 h after the first on-duty event of its duty period.
C2_WindowBound ==
    TimelineEmitted => DrivingInsideWindow(timeline, 1, NoTime)

\* C3: in every emitted timeline the DRIVING time since the latest
\* non-driving event of at least 30 minutes never exceeds 8 h, and the
\* validator's break check (which rejects above 8.5 h) accepts the timeline.
C3_BreakBound ==
    TimelineEmitted =>
        /\ MaxDrivingSinceBreak(timeline, 1, 0, 0) <= BREAK_REQUIRED_AFTER_HOURS * HOUR
        /\ ensure_required_breaks(timeline) = "ok"

\* a two-leg route timeline in which a 30-minute break was taken after
\* exactly 8 h of driving and the driving went on after it
C3_Witness ==
    /\ TimelineEmitted
    /\ pipeline = "route"
    /\ input.leg1 > 0
    /\ MaxDrivingSinceBreak(timeline, 1, 0, 0) = BREAK_REQUIRED_AFTER_HOURS * HOUR
    /\ \E i \in 2..(Len(timeline) - 1) :
         /\ timeline[i].remark = "BREAK"
         /\ timeline[i - 1].status = STATUS_DRIVING
         /\ timeline[i + 1].status = STATUS_DRIVING

\* C4: in every emitted timeline each event starts where the previous one
\* ended: next.start - current.end lies in [0 s, 60 s].
C4_Contiguity ==
    TimelineEmitted =>
        \A i \in 1..(Len(timeline) - 1) :
            /\ timeline[i + 1].start - timeline[i].end >= 0
            /\ timeline[i + 1].start - timeline[i].end <= GapToleranceSeconds

\* a two-leg route timeline with stops of both legs and driving between them
C4_Witness ==
    /\ TimelineEmitted
    /\ pipeline = "route"
    /\ input.leg1 > 0
    /\ leg1res.stops # << >>
    /\ Len(timeline) >= 6
    /\ \E i \in 1..Len(timeline) : timeline[i].status = STATUS_DRIVING

\* the four daily totals of a LogDay, in hundredths of an hour
TotalOfDay(d) == d.driving + d.on_duty + d.off_duty + d.sleeper

\* C5: every LogDay produced is fully covered: it starts at 00:00:00 of its
\* day, ends at 00:00:00 of the next, its consecutive segments meet, and the
\* four totals sum to 24.00 h within 0.02 h.
C5_Coverage ==
    \A k \in 1..Len(logDays) :
        LET d == logDays[k]
        IN  /\ d.segments # << >>
            /\ d.segments[1].start = d.date * DAY
            /\ Last(d.segments).end = (d.date + 1) * DAY
            /\ \A i \in 1..(Len(d.segments) - 1) :
                 d.segments[i + 1].start = d.segments[i].end
            /\ TotalOfDay(d) >= 2400 - DayTotalTolerance
            /\ TotalOfDay(d) <= 2400 + DayTotalTolerance

\* LogDays of a trip over several days, one of them with gaps filled at both
\* ends and totals that the rounding moved off 24.00
C5_Witness ==
    /\ Len(logDays) >= 2
    /\ \E k \in 1..Len(logDays) :
         /\ TotalOfDay(logDays[k]) # 2400
         /\ logDays[k].segments[1].remark \in {"Off duty", "Off duty (auto-filled)"}
    /\ Last(Last(logDays).segments).remark \in {"Off duty", "Off duty (auto-filled)"}

\* C6: no segment of any LogDay spans two calendar dates: it starts and ends
\* in its day, an end exactly at the next midnight allowed, for events of
\* any length.
C6_NoSegmentSpansTwoDates ==
    \A k \in 1..Len(logDays) :
        \A i \in 1..Len(logDays[k].segments) :
            LET g == logDays[k].segments[i]
            IN  /\ DateOf(g.start) = logDays[k].date
                /\ g.end <= (logDays[k].date + 1) * DAY

\* C7: for every trip that ends COMPLETED, the trip's DRIVING plus ON_DUTY
\* hours added to current_cycle_hours are at most 70.
C7_CycleBound ==
    status = "COMPLETED" =>
        input.cycle * HOUR + TotalOnDuty(timeline) <= MAX_CYCLE_HOURS * HOUR

\* C8: when current_cycle_hours plus the trip's on-duty hours exceed 70, a
\* run that no database error interrupts ends FAILED with rule
\* 70_HOUR_CYCLE and has written nothing.
C8_CycleFailure ==
    ( /\ pc = "idle"
      /\ runs > 0
      /\ dbFailures = 0
      /\ input.cycle * HOUR + TotalOnDuty(timeline) > MAX_CYCLE_HOURS * HOUR )
    => ( /\ status = "FAILED"
         /\ errorKind = "70_HOUR_CYCLE"
         /\ store = storeAtStart )

\* C9: LogDays are written only after the validator has accepted the run's
\* timeline and LogDays, and a run the validator rejected leaves the store
\* as it was before the run.
C9_ValidateBeforePersist ==
    /\ store # storeAtStart => verdict = "accepted"
    /\ verdict = "rejected" => store = storeAtStart

\* C10: at every state the trip's stored LogDays and segments are the
\* complete result of one planning run or nothing: never a part of a result
\* or a mixture of two.
C10_AtomicPersistence ==
    store = << >> \/ store \in produced


\* C11: a run that replans a trip whose LogDays are already stored, and that
\* neither a database error nor the validator stops, ends COMPLETED with the
\* store holding exactly that run's LogDays: the earlier records replaced,
\* not duplicated, and no failure on the (trip, date) uniqueness rule.
C11_IdempotentReplan ==
    ( /\ pc = "idle"
      /\ runs >= 2
      /\ storeAtStart # << >>
      /\ dbFailures = 0
      /\ verdict # "rejected" )
    => ( /\ status = "COMPLETED"
         /\ store = logDays )

\* C12: for every input whose projected cycle total is at most 70 h the
\* validator accepts the engine's timeline and LogDays.
C12_EngineOutputValid ==
    ( /\ pipeline = "engine"
      /\ pc \in {"e_validate", "e_persist", "idle"}
      /\ logDays # << >>
      /\ input.cycle * HOUR + TotalOnDuty(timeline) <= MAX_CYCLE_HOURS * HOUR )
    => ( /\ validate_before_persistence(timeline, logDays, input.cycle) = "ok"
         /\ verdict # "rejected" )

\* the validator has accepted an engine timeline of several days that holds
\* a 10 h rest, a break and a fuel stop
C12_Witness ==
    /\ pipeline = "engine"
    /\ verdict = "accepted"
    /\ Len(logDays) >= 3
    /\ \E i \in 1..Len(timeline) : IsLongRest(timeline[i])
    /\ \E i \in 1..Len(timeline) :
         timeline[i].status = STATUS_ON_DUTY /\ Duration(timeline[i]) = FUEL_STOP_DURATION_MINUTES * MINUTE

\* C13: every LogDay the engine produces has total_driving_hours at most
\* 11.00, whatever the start time of day.  A day whose driving time falls
\* exactly on a rounding tie is left out, so that a violation never rests on
\* the direction a float tie is rounded.
C13_DailyDrivingTotal ==
    pipeline = "engine" =>
        \A k \in 1..Len(logDays) :
            \/ logDays[k].driving <= MAX_DRIVING_HOURS * 100
            \/ 2 * (StatusSeconds(logDays[k].segments, STATUS_DRIVING) % EpsSeconds) = EpsSeconds


\* the kinds of stop whose counter has a headroom of at most 0.01 h
ExhaustedKinds(p, v) ==
    (IF HoursUntilDailyLimit(p) <= EpsSeconds \/ HoursUntilWindowLimit(p) <= EpsSeconds
     THEN {"REST"} ELSE {})
    \cup (IF HoursUntilBreak(p) <= EpsSeconds THEN {"BREAK"} ELSE {})
    \cup (IF HoursUntilFuel(p, v) <= EpsSeconds THEN {"FUEL"} ELSE {})

CountType(st, type) == Cardinality({ i \in 1..Len(st) : st[i].type = type })

\* C14: when the planner has finished a direct trip of D miles, the number of
\* FUEL stops it emitted lies between floor(D/1000) - 1 and floor(D/1000) + 1.
C14_FuelCoverage ==
    (pc = "r_transform" /\ input.leg1 = 0) =>
        LET n == CountType(route.stops, "FUEL")
            f == input.dist \div HOS_FUEL_INTERVAL_MILES
        IN  f - 1 <= n /\ n <= f + 1

\* C15: a drive-loop iteration that begins short of the destination with a
\* headroom at or below 0.01 h emits no driving and inserts the stop of an
\* exhausted counter.
C15_ExhaustedForcesStop ==
    [][ ( /\ pc = "r_plan"
          /\ ps.dist < ps.D
          /\ ExhaustedKinds(ps, input.speed) # {} )
        => ( /\ ps'.dist = ps.dist
             /\ ps'.total = ps.total
             /\ Len(stops') = Len(stops) + 1
             /\ Last(stops').type \in ExhaustedKinds(ps, input.speed) ) ]_vars


\* the REST, BREAK and FUEL conditions of the route planner, on the counters
\* after the drive of the iteration, and the stop the priority order asks for
PlannerDue(p) ==
    (IF \/ p.dtoday >= HOS_MAX_DRIVING_DAILY * HOUR - EpsSeconds
        \/ p.time - p.wstart >= HOS_MAX_ON_DUTY_WINDOW * HOUR - EpsSeconds
     THEN {"REST"} ELSE {})
    \cup (IF p.dsb >= HOS_MAX_DRIVING_BEFORE_BREAK * HOUR - EpsSeconds THEN {"BREAK"} ELSE {})
    \cup (IF p.msf >= (HOS_FUEL_INTERVAL_MILES - 1) * MILE THEN {"FUEL"} ELSE {})

\* the same conditions of the engine, on the state at the top of the loop
EngineDue(e) ==
    (IF \/ e.dtoday >= MAX_DRIVING_HOURS * HOUR
        \/ hours_since_window_start(e) >= MAX_ON_DUTY_WINDOW * HOUR
     THEN {"REST"} ELSE {})
    \cup (IF e.hsb >= BREAK_REQUIRED_AFTER_HOURS * HOUR THEN {"BREAK"} ELSE {})
    \cup (IF e.msf >= FUEL_INTERVAL_MILES * MILE THEN {"FUEL"} ELSE {})

FirstByPriority(due) ==
    IF "REST" \in due THEN "REST" ELSE IF "BREAK" \in due THEN "BREAK" ELSE "FUEL"

\* the kind of stop an engine event stands for
EngineStopKind(ev) ==
    IF ev.status = STATUS_DRIVING THEN "NONE"
    ELSE IF ev.status = STATUS_ON_DUTY THEN "FUEL"
    ELSE IF Duration(ev) = BREAK_DURATION_MINUTES * MINUTE THEN "BREAK"
    ELSE "REST"

\* C16: an iteration of the planner's loop inserts at most one stop, and when
\* more than one of the REST, BREAK and FUEL conditions holds the stop
\* inserted is REST before BREAK before FUEL.
C16_OneStopByPriority ==
    [][ /\ (pc = "r_plan" /\ pc' = "r_plan") =>
              /\ Len(stops') <= Len(stops) + 1
              /\ Len(stops') = Len(stops) + 1 =>
                    Last(stops').type = FirstByPriority(PlannerDue(AfterDrive(ps, input.speed)))
        /\ (pc = "e_gen" /\ pc' = "e_gen") =>
              /\ Len(timeline') <= Len(timeline) + 1
              /\ (Len(timeline') = Len(timeline) + 1 /\ EngineDue(es) # {}) =>
                    EngineStopKind(Last(timeline')) = FirstByPriority(EngineDue(es)) ]_vars

\* the route planner's half of that property
PlannerOneStopByPriority ==
    [][ (pc = "r_plan" /\ pc' = "r_plan") =>
              /\ Len(stops') <= Len(stops) + 1
              /\ Len(stops') = Len(stops) + 1 =>
                    Last(stops').type = FirstByPriority(PlannerDue(AfterDrive(ps, input.speed))) ]_vars


\* C17: a stop changes only its own counters.  REST zeroes
\* driving_since_break and driving_today and moves the window start to its
\* end, leaving miles_since_fuel; BREAK zeroes driving_since_break only; FUEL
\* zeroes miles_since_fuel only; each stop advances the clock by its duration
\* and leaves the cumulative distance and the total driving as the drive of
\* the iteration left them.
C17_StopFrame ==
    [][ (pc = "r_plan" /\ pc' = "r_plan" /\ Len(stops') = Len(stops) + 1) =>
          LET q == AfterDrive(ps, input.speed)
              stop == Last(stops')
              dur == stop.departure - stop.arrival
          IN  /\ stop.arrival = q.time
              /\ dur = stop.minutes * MINUTE
              /\ dur = (CASE stop.type = "REST" -> HOS_REST_DURATION
                          [] stop.type = "BREAK" -> HOS_BREAK_DURATION
                          [] OTHER -> HOS_FUEL_STOP_DURATION) * MINUTE
              /\ ps'.time = q.time + dur
              /\ ps'.dist = q.dist
              /\ ps'.total = q.total
              /\ stop.type = "REST" =>
                    /\ ps'.dsb = 0 /\ ps'.dtoday = 0
                    /\ ps'.wstart = stop.departure
                    /\ ps'.msf = q.msf
              /\ stop.type = "BREAK" =>
                    /\ ps'.dsb = 0 /\ ps'.dtoday = q.dtoday
                    /\ ps'.wstart = q.wstart
                    /\ ps'.msf = q.msf
              /\ stop.type = "FUEL" =>
                    /\ ps'.msf = 0 /\ ps'.dsb = q.dsb
                    /\ ps'.dtoday = q.dtoday
                    /\ ps'.wstart = q.wstart ]_vars

\* the planner has just taken a FUEL stop with the break counter running,
\* after a BREAK and a REST taken with miles on the fuel counter
C17_Witness ==
    /\ pc = "r_plan"
    /\ stops # << >>
    /\ Last(stops).type = "FUEL"
    /\ ps.time = Last(stops).departure
    /\ ps.msf = 0
    /\ ps.dsb > 0
    /\ CountType(stops, "REST") > 0
    /\ CountType(stops, "BREAK") > 0


\* C18: the planning of the second leg begins at the instant the first leg's
\* planner pass ended, which is the end of the first leg's last driving
\* segment (the first leg has no dropoff), stops or no stops.
C18_SecondLegStart ==
    (pipeline = "route" /\ leg = "second" /\ pc = "r_plan") =>
        /\ leg1res.segments # << >>
        /\ ps.start = Last(leg1res.segments).end_time


\* C19: in the stop list of a two-leg trip distance_from_start_miles and
\* driving_hours_from_start never decrease, and those of the second leg's
\* stops are at least the first leg's distance.
C19_CumulativeStops ==
    (pipeline = "route" /\ pc = "r_transform" /\ input.leg1 # 0) =>
        /\ \A i, j \in 1..Len(route.stops) :
              i < j => /\ route.stops[i].miles10 <= route.stops[j].miles10
                       /\ route.stops[i].hours100 <= route.stops[j].hours100
        /\ \A i \in 1..Len(route.stops) :
              i > Len(leg1res.stops) => route.stops[i].miles10 >= leg1res.miles10


\* C20: an attempt of the task that the validator rejects ends the task with
\* the trip FAILED and no retry; an attempt that fails otherwise is retried,
\* and no task is retried more than 3 times (4 attempts).
C20_RetryPolicy ==
    [][ /\ (pipeline = "engine" /\ verdict # "rejected" /\ verdict' = "rejected") =>
              /\ status' = "FAILED"
              /\ errorKind' \notin {"none", "internal"}
              /\ pc' = "idle"
              /\ retries' = retries
        /\ (pc # "e_retry" /\ pc' = "e_retry") =>
              /\ errorKind' = "internal"
              /\ verdict' # "rejected"
              /\ retries' = retries + 1
        /\ pc = "e_retry" => runs' = runs
        /\ retries' <= MAX_RETRIES ]_vars

\* the fourth attempt of a task has failed and the task is not retried again
C20_Witness ==
    /\ pipeline = "engine"
    /\ pc = "idle"
    /\ status = "FAILED"
    /\ errorKind = "internal"
    /\ retries = MAX_RETRIES

\* C21: a geocoding or routing failure raised inside plan_trip_with_route
\* leaves it as an exception that generate_logs_with_route catches in its
\* geocoding or routing clause: the trip is FAILED, the error is classified
\* as a geocoding or routing error, and the task is not retried
C21_ProviderFailureClassified ==
    [][\A cause \in ProviderFailures :
         RouteProviderError(cause) =>
            LET h == RouteTaskHandler(OrchestratorRaises(cause))
            IN  /\ status' = "FAILED"
                /\ h.markFailed
                /\ h.errorType \in {"geocoding_error", "routing_error"}
                /\ ~h.retry]_vars

\* the LogDays of the current run are all in the store, segments included
RunPersisted ==
    /\ Len(logDays) > 0
    /\ \A k \in 1..Len(logDays) : \E j \in 1..Len(store) : store[j] = logDays[k]

\* C22: once a run has marked the trip PROCESSING the status becomes
\* COMPLETED or FAILED, and it is COMPLETED only when the run that set it
\* has persisted its LogDays
C22_ProcessingSettles ==
    /\ [](status = "COMPLETED" => RunPersisted)
    /\ (status = "PROCESSING") ~> (status \in {"COMPLETED", "FAILED"})

\* C23: cancel turns a PENDING or PROCESSING trip into a CANCELLED one and
\* answers success; for a COMPLETED, FAILED or CANCELLED trip it answers
\* with an error and leaves status and error_message as they were
C23_CancelOnlyWhenActive ==
    [][cancel =>
         IF status \in {"PENDING", "PROCESSING"}
         THEN status' = "CANCELLED" /\ response' = "success"
         ELSE /\ status \in {"COMPLETED", "FAILED", "CANCELLED"}
              /\ response' = "error"
              /\ status' = status
              /\ errorKind' = errorKind]_vars

\* a cancelled trip was asked to cancel again and refused
C23_Witness ==
    /\ status = "CANCELLED"
    /\ errorKind = "Cancelled by user"
    /\ response = "error"

\* C30: the drive loop of calculate_hos_stops ends for every distance above
\* zero, also when the distance left at the start of an iteration is worth
\* 0.01 h of driving or less
C30_DriveLoopTerminates == (pc = "r_plan") ~> (pc # "r_plan")

\* the provider answers the points of one cache key alike
ProviderAnswersKeysAlike ==
    \A p \in GeoPoints, q \in GeoPoints :
        CacheKey(p) = CacheKey(q) => provider[p] = provider[q]

\* C24: the planner runs made for one request against one provider, which
\* answers equal cache keys equally, produce the same stops and driving
\* segments and the same LogDays (segments, remarks, totals), whether the
\* cache held the stop's entry or not when each run asked for it
C24_CacheDoesNotShow ==
    ProviderAnswersKeysAlike =>
        /\ Cardinality(planned) <= 1
        /\ Cardinality(produced) <= 1

\* C24 as worded, for any provider: whatever the cache holds, the runs
\* made for one request produce the same routes and LogDays
C24_AnyCacheState ==
    /\ Cardinality(planned) <= 1
    /\ Cardinality(produced) <= 1

\* the second run has planned its route from a cache that holds the city of
\* its stop, after a first run that had to ask the provider
C24_Witness ==
    /\ ProviderAnswersKeysAlike
    /\ runs = 2
    /\ pc = "r_persist"
    /\ Cardinality(planned) = 1
    /\ Cardinality(produced) = 1
    /\ \E k \in 1..Len(route.stops) :
         /\ route.stops[k].type = "BREAK"
         /\ route.stops[k].city = "Springfield"
         /\ geoCache[CacheKey(StopPoint(400 * MILE))] = "Springfield"

\* the run has derived its LogDays from its timeline
LogDaysEmitted ==
    /\ runs > 0
    /\ pc \in {"r_persist", "e_validate", "e_persist", "e_insert", "e_mark"}

\* the LogDay of date holds a DRIVING segment from start to end whose remark
\* carries suffix (any suffix if suffix is "any")
HasDrivingSegment(date, start, end, suffix) ==
    \E k \in 1..Len(logDays) :
        /\ logDays[k].date = date
        /\ \E j \in 1..Len(logDays[k].segments) :
             LET g == logDays[k].segments[j]
             IN  /\ g.status = STATUS_DRIVING
                 /\ g.start = start
                 /\ g.end = end
                 /\ suffix # "any" => g.suffix = suffix

CrossesMidnight(e) ==
    /\ e.start < (DateOf(e.start) + 1) * DAY
    /\ (DateOf(e.start) + 1) * DAY < e.end

\* C25: a DRIVING event that crosses midnight is in the LogDays as two
\* segments, the first ending at 00:00 in the day it started, the second
\* starting at 00:00 in the next day with the remark suffix
\* " (cont'd from prev day)"; and the 300-mile trip at 50 mph that starts at
\* 22:00 has at least two LogDays
C25_DrivingSplitAtMidnight ==
    LogDaysEmitted =>
        /\ \A i \in 1..Len(timeline) :
             (timeline[i].status = STATUS_DRIVING /\ CrossesMidnight(timeline[i])) =>
                LET e == timeline[i]
                    midnight == (DateOf(e.start) + 1) * DAY
                IN  /\ HasDrivingSegment(DateOf(e.start), e.start, midnight, "any")
                    /\ HasDrivingSegment(DateOf(midnight), midnight, e.end,
                                         " (cont'd from prev day)")
                    /\ ~HasDrivingSegment(DateOf(e.start), e.start, e.end, "any")
        /\ (input.dist = 300 /\ input.speed = 50 /\ input.start = 79200
            /\ input.leg1 = 0) => Len(logDays) >= 2

\* the engine has split the 23:00-01:00 drive of the 300-mile trip that
\* starts at 22:00
C25_Witness ==
    /\ pipeline = "engine"
    /\ LogDaysEmitted
    /\ input.dist = 300 /\ input.start = 79200 /\ input.leg1 = 0
    /\ \E i \in 1..Len(timeline) :
         timeline[i].status = STATUS_DRIVING /\ CrossesMidnight(timeline[i])
    /\ Len(logDays) >= 2

\* C26: when the planner has finished the 2800-mile trip at 55 mph that
\* starts at 08:00, its stops hold at least 4 RESTs, at least 4 BREAKs and at
\* least 2 FUELs, and the driving hours from the start that its DROPOFF stop
\* carries round to 50.9 h.
LongHaul ==
    /\ input.speed = HaulSpeed
    /\ input.dist = HaulMiles
    /\ input.start = HaulStart
    /\ input.leg1 = 0

C26_LongHaulStops ==
    (pc = "r_transform" /\ LongHaul) =>
        /\ CountType(route.stops, "REST") >= 4
        /\ CountType(route.stops, "BREAK") >= 4
        /\ CountType(route.stops, "FUEL") >= 2
        /\ RoundDiv(Last(route.stops).hours100, 10) = 509

C26_Witness ==
    /\ pc = "r_transform"
    /\ LongHaul
    /\ CountType(route.stops, "REST") = 4
    /\ CountType(route.stops, "BREAK") = 4
    /\ CountType(route.stops, "FUEL") = 2
    /\ Last(route.stops).type = "DROPOFF"

\* C27: for the 2800-mile trip at 55 mph that starts at 08:00 with 20 cycle
\* hours used, the LogDays derived from the timeline are at least 6 and the
\* four totals of each sum to 24.00 h within 0.02 h.
C27_LongHaulLogDays ==
    (LogDaysEmitted /\ LongHaul /\ input.cycle = 20) =>
        /\ Len(logDays) >= 6
        /\ \A k \in 1..Len(logDays) :
             /\ TotalOfDay(logDays[k]) >= 2400 - DayTotalTolerance
             /\ TotalOfDay(logDays[k]) <= 2400 + DayTotalTolerance

\* C28: a run of the validator's checks leaves the event list it was given,
\* the order of that list and every LogDay it was given as they were, both
\* when it accepts and when it raises.
C28_ValidatorPure ==
    [][ (verdict = "none" /\ verdict' # "none") =>
          /\ timeline' = timeline
          /\ logDays' = logDays ]_vars

\* the validator has rejected a list that was not in start order, after it
\* was split into LogDays
C28_Witness ==
    /\ verdict = "rejected"
    /\ Len(timeline) >= 2
    /\ timeline # SortByStart(timeline)
    /\ logDays # << >>

\* C29: in every LogDay derived from a generated timeline, the four daily
\* totals, each rounded to two decimals, sum to 24.00 h within 0.01 h.
C29_RoundedTotalsSum ==
    LogDaysEmitted =>
        \A k \in 1..Len(logDays) :
            /\ TotalOfDay(logDays[k]) >= 2400 - 1
            /\ TotalOfDay(logDays[k]) <= 2400 + 1

\* a LogDay of a generated timeline whose rounded totals sum to 24.01 h or to
\* 23.99 h: two of its totals lay half-way between two hundredths
C29_Witness ==
    /\ LogDaysEmitted
    /\ \E k \in 1..Len(logDays) :
         /\ TotalOfDay(logDays[k]) \in {2399, 2401}
         /\ logDays[k].driving > 0

\* C31: while a task is running on a trip that has been cancelled, no step
\* changes the status away from CANCELLED and no step changes the LogDays
\* stored for the trip.
C31_CancellationSticks ==
    [][ (status = "CANCELLED" /\ pc # "idle") =>
          /\ status' = "CANCELLED"
          /\ store' = store ]_vars

\* two events overlap in time: each starts before the other ends
EventsOverlap(e, f) == e.start < f.end /\ f.start < e.end

\* the lists that hold the events of events in another order
Reorderings(events) ==
    { [i \in 1..Len(events) |-> events[p[i]]] :
        p \in { q \in [1..Len(events) -> 1..Len(events)] :
                  \A i, j \in 1..Len(events) : q[i] = q[j] => i = j } }

\* C32: ensure_no_overlaps raises exactly when two events of the list, next
\* to each other or not, overlap in time, and it answers alike for the same
\* events listed in any other order.
C32_OverlapExact ==
    verdict # "none" =>
        /\ (verdict = "rejected") <=>
              \E i \in 1..Len(timeline), j \in 1..Len(timeline) :
                  i # j /\ EventsOverlap(timeline[i], timeline[j])
        /\ \A other \in Reorderings(timeline) :
              ensure_no_overlaps(other) = errorKind

\* a list of three events was rejected whose first and last overlap while
\* the list is not in start order
C32_Witness ==
    /\ verdict = "rejected"
    /\ errorKind = "OVERLAP"
    /\ Len(timeline) = 3
    /\ timeline # SortByStart(timeline)
    /\ EventsOverlap(timeline[1], timeline[3])
    /\ ~EventsOverlap(timeline[1], timeline[2])

\* the segments of all LogDays that stem from the event (the others are the
\* filled gaps), in start order
RECURSIVE PartsFrom(_, _)
PartsFrom(days, k) ==
    IF k > Len(days) THEN << >>
    ELSE SelectSeq(days[k].segments, LAMBDA g : g.remark = "Event")
         \o PartsFrom(days, k + 1)

PartsOfEvent == SortByStart(PartsFrom(logDays, 1))

\* the parts are the event, cut at the midnights
SplitConserves(e, parts) ==
    /\ parts # << >>
    /\ parts[1].start = e.start
    /\ Last(parts).end = e.end
    /\ \A i \in 1..(Len(parts) - 1) : parts[i + 1].start = parts[i].end
    /\ SeqSum([i \in 1..Len(parts) |-> Duration(parts[i])]) = Duration(e)
    /\ \A i \in 1..Len(parts) :
         /\ parts[i].end <= (DateOf(parts[i].start) + 1) * DAY
         /\ parts[i].status = e.status
         /\ parts[i].city = e.city
    /\ DateOf(e.start) = DateOf(e.end) => parts = << e >>

\* C33: when one event has been split into LogDays by either splitter, its
\* parts begin at its start, end at its end, follow each other without gap,
\* have durations that sum to its duration, each lie within one calendar
\* day and keep its status and place; an event within one day is one part,
\* the event itself.
C33_SplitConserves ==
    (pc = "idle" /\ pipeline # "none" /\ Len(timeline) = 1) =>
        SplitConserves(timeline[1], PartsOfEvent)

\* the drive loop of the current planner pass has ended
PassEnded == pc = "r_plan" /\ ps.dist >= ps.D

\* what calculate_hos_stops returns when it ends here
PassResult == PlannerFinish(ps, stops, segments)

\* the stops of the pass that close a driving segment: all but the PICKUP
ClosingStops == SelectSeq(PassResult.stops, LAMBDA t : t.type # "PICKUP")

\* C34: when a planner pass ends, its driving segments tile the route: the
\* first starts at mile 0, each ends at the mile where the next starts, the
\* last ends at the route distance, each ends in time at the arrival of the
\* stop that closes it, and their hours sum to the total driving hours.
C34_SegmentsTile ==
    PassEnded =>
        LET segs == PassResult.segments
            n == Len(segs)
        IN  /\ n >= 1
            /\ segs[1].start_miles = 0
            /\ \A i \in 1..(n - 1) : segs[i].end_miles = segs[i + 1].start_miles
            /\ segs[n].end_miles = ps.D
            /\ \A i \in 1..(n - 1) : Len(ClosingStops) >= i
            /\ \A i \in 1..n :
                 i <= Len(ClosingStops) => segs[i].end_time = ClosingStops[i].arrival
            /\ SegmentHoursSum(segs) = PassResult.total_driving

\* a pass with a dropoff has ended with three or more segments, closed by a
\* BREAK, by a REST and by the DROPOFF
C34_Witness ==
    /\ PassEnded
    /\ ps.dropoff
    /\ Len(PassResult.segments) >= 3
    /\ Len(ClosingStops) = Len(PassResult.segments)
    /\ \E i \in 1..Len(ClosingStops) : ClosingStops[i].type = "BREAK"
    /\ \E i \in 1..Len(ClosingStops) : ClosingStops[i].type = "REST"
    /\ Last(ClosingStops).type = "DROPOFF"

\* the distance of the trip the running pipeline plans, in 1/3600 mile
TripDistance ==
    IF pipeline = "route" THEN input.leg1 * MILE + RouteDistance(input)
    ELSE input.dist * MILE

\* the seconds of DRIVING in all LogDays together
DrivingRecorded ==
    SeqSum([k \in 1..Len(logDays) |-> StatusSeconds(logDays[k].segments, STATUS_DRIVING)])

\* C35: the DRIVING time of a trip's LogDays, all days together, is the
\* trip's distance divided by the average speed, within 0.01 h, for direct
\* trips and for trips of two legs.
C35_DrivingMatchesDistance ==
    LogDaysEmitted =>
        /\ DrivingRecorded * input.speed <= TripDistance + EpsSeconds * input.speed
        /\ DrivingRecorded * input.speed >= TripDistance - EpsSeconds * input.speed

\* one event has been split into LogDays by one of the two splitters
EventSplit == pc = "idle" /\ pipeline # "none" /\ runs = 0 /\ Len(timeline) = 1

====
